---- MODULE Spec2Model ----
(***************************************************************************)
(* A model of the colorbox numeric core: the 3x3 colour matrix algebra of  *)
(* src/matrix.rs, the gamut intersection and the gamut clips of            *)
(* src/transforms.rs, the table resampling of src/lut.rs, and the reader   *)
(* of src/formats/cube_resolve.rs.                                         *)
(*                                                                         *)
(* The library is a family of pure functions over floats.  Every function  *)
(* is an operator that computes as the code computes, and a call of a      *)
(* function is an action: the state is the call in progress (its function, *)
(* its arguments, and its result once it has returned).                    *)
(*                                                                         *)
(* Float values are modelled as the extended rationals: a finite value is  *)
(* a fraction, and +inf, -inf and NaN follow the IEEE-754 rules the code   *)
(* relies on (x/0, 0*inf, inf-inf, comparisons with NaN, Rust's            *)
(* NaN-ignoring min and max).  A zero is +0, which is what x - x and 0.0   *)
(* literals give.  Numerators and denominators are unbounded naturals,     *)
(* kept as little-endian sequences of limbs.  The matrix algebra is         *)
(* computed in exact arithmetic; the gamut intersection, the clips and the *)
(* table resampling round every operation to the nearest value of the      *)
(* format (53 bits for f64, 24 bits for f32, ties to even), with an        *)
(* unbounded exponent: overflow and underflow are not modelled.            *)
(***************************************************************************)
EXTENDS Integers, Sequences, FiniteSets, TLC

VARIABLES pc, call, ret

vars == <<pc, call, ret>>

----------------------------------------------------------------------------
(* Unbounded naturals: little-endian limb sequences, <<>> is zero.         *)

Base == 100 * 100

\* TRUE, for any v: TLC computes an argument where it is first used, and v is
\* computed here rather than inside the calls that v is handed on to
Eager(v) == v = v

RECURSIVE Limbs(_)
Limbs(n) == IF n = 0 THEN <<>> ELSE <<n % Base>> \o Limbs(n \div Base)

RECURSIVE Trim(_)
Trim(a) ==
    IF a = <<>> THEN a
    ELSE IF a[Len(a)] = 0 THEN Trim(SubSeq(a, 1, Len(a) - 1)) ELSE a

Limb(a, i) == IF i <= Len(a) THEN a[i] ELSE 0

RECURSIVE AddFrom(_, _, _, _)
AddFrom(a, b, i, c) ==
    IF i > Len(a) /\ i > Len(b) THEN (IF c = 0 THEN <<>> ELSE <<c>>)
    ELSE LET s == Limb(a, i) + Limb(b, i) + c
         IN  <<s % Base>> \o AddFrom(a, b, i + 1, s \div Base)

BAdd(a, b) == IF a = <<>> THEN b ELSE IF b = <<>> THEN a ELSE AddFrom(a, b, 1, 0)

RECURSIVE SubFrom(_, _, _, _)
SubFrom(a, b, i, br) ==
    IF i > Len(a) THEN <<>>
    ELSE LET d == Limb(a, i) - Limb(b, i) - br
         IN  IF d < 0 THEN <<d + Base>> \o SubFrom(a, b, i + 1, 1)
             ELSE <<d>> \o SubFrom(a, b, i + 1, 0)

\* a - b for a >= b
BSub(a, b) == IF b = <<>> THEN a ELSE Trim(SubFrom(a, b, 1, 0))

RECURSIVE CmpFrom(_, _, _)
CmpFrom(a, b, i) ==
    IF i = 0 THEN 0
    ELSE IF a[i] < b[i] THEN -1
    ELSE IF a[i] > b[i] THEN 1
    ELSE CmpFrom(a, b, i - 1)

\* -1, 0, 1 as a < b, a = b, a > b
BCmp(a, b) ==
    IF Len(a) < Len(b) THEN -1
    ELSE IF Len(a) > Len(b) THEN 1
    ELSE CmpFrom(a, b, Len(a))

RECURSIVE MulSmallFrom(_, _, _, _)
MulSmallFrom(a, k, i, c) ==
    IF i > Len(a) THEN (IF c = 0 THEN <<>> ELSE <<c>>)
    ELSE LET p == a[i] * k + c
         IN  <<p % Base>> \o MulSmallFrom(a, k, i + 1, p \div Base)

BMulSmall(a, k) == IF k = 0 THEN <<>> ELSE IF k = 1 THEN a ELSE MulSmallFrom(a, k, 1, 0)

BShift(a) == IF a = <<>> THEN a ELSE <<0>> \o a

RECURSIVE MulFrom(_, _, _)
MulFrom(a, b, j) ==
    IF j > Len(b) THEN <<>>
    ELSE BAdd(BMulSmall(a, b[j]), BShift(MulFrom(a, b, j + 1)))

BMul(a, b) ==
    IF a = <<>> \/ b = <<>> THEN <<>>
    ELSE IF b = <<1>> THEN a
    ELSE IF a = <<1>> THEN b
    ELSE IF Len(a) >= Len(b) THEN MulFrom(a, b, 1) ELSE MulFrom(b, a, 1)

\* the value of a natural of at most two limbs
Small(a) == Limb(a, 1) + Base * Limb(a, 2)

RECURSIVE Gcd(_, _)
Gcd(m, n) == IF n = 0 THEN m ELSE Gcd(n, m % n)

\* the quotient of limbs 1..i of a, with rem carried in from above, by k < Base
RECURSIVE DivSmallFrom(_, _, _, _)
DivSmallFrom(a, k, i, rem) ==
    IF i = 0 THEN <<>>
    ELSE Append(DivSmallFrom(a, k, i - 1, (rem * Base + a[i]) % k),
                (rem * Base + a[i]) \div k)

BDivSmall(a, k) == IF k = 1 THEN a ELSE Trim(DivSmallFrom(a, k, Len(a), 0))

RECURSIVE ModSmallFrom(_, _, _, _)
ModSmallFrom(a, k, i, rem) ==
    IF i = 0 THEN rem ELSE ModSmallFrom(a, k, i - 1, (rem * Base + a[i]) % k)

\* the largest q <= qh with q * b <= r
RECURSIVE QuotFix(_, _, _)
QuotFix(qh, r, b) ==
    IF qh > 0 /\ BCmp(BMulSmall(b, qh), r) > 0 THEN QuotFix(qh - 1, r, b) ELSE qh

\* a quotient limb of r by b, from their top limbs: never too small
QuotTop(top, bn) == IF top \div bn > Base - 1 THEN Base - 1 ELSE top \div bn

QuotHat(r, b) ==
    IF Len(r) < Len(b) THEN 0
    ELSE QuotTop(Limb(r, Len(b) + 1) * Base + Limb(r, Len(b)), b[Len(b)])

\* r * Base + x
Push(r, x) == IF r = <<>> /\ x = 0 THEN <<>> ELSE <<x>> \o r

\* schoolbook division of limbs 1..i of a, with the quotient limbs q found so
\* far and the remainder r carried in from above, by b, whose top limb is at
\* least Base / 2: <<the quotient's limbs, the remainder>>
RECURSIVE LongDiv(_, _, _, _, _)

LongDivSub(a, b, i, q, r, d) ==
    LongDiv(a, b, i - 1, <<d>> \o q, IF d = 0 THEN r ELSE BSub(r, BMulSmall(b, d)))

LongDivStep(a, b, i, q, r) == LongDivSub(a, b, i, q, r, QuotFix(QuotHat(r, b), r, b))

LongDiv(a, b, i, q, r) ==
    IF i = 0 \/ ~Eager(<<q, r>>) THEN <<q, r>> ELSE LongDivStep(a, b, i, q, Push(r, a[i]))

DivModOut(qr, f) == <<Trim(qr[1]), BDivSmall(qr[2], f)>>

DivModScaled(af, bf, f) ==
    DivModOut(LongDiv(af, bf, Len(af) - Len(bf) + 1, <<>>,
                      SubSeq(af, Len(af) - Len(bf) + 2, Len(af))), f)

\* <<a div b, a mod b>> for b # 0
BDivMod(a, b) ==
    IF BCmp(a, b) < 0 THEN <<<<>>, a>>
    ELSE IF Len(b) = 1
         THEN <<BDivSmall(a, b[1]), Limbs(ModSmallFrom(a, b[1], Len(a), 0))>>
    ELSE DivModScaled(BMulSmall(a, Base \div (b[Len(b)] + 1)),
                      BMulSmall(b, Base \div (b[Len(b)] + 1)),
                      Base \div (b[Len(b)] + 1))

RECURSIVE BGcd(_, _)
BGcd(a, b) ==
    IF b = <<>> THEN a
    ELSE IF Len(a) <= 2 /\ Len(b) <= 2 THEN Limbs(Gcd(Small(a), Small(b)))
    ELSE BGcd(b, BDivMod(a, b)[2])

----------------------------------------------------------------------------
(* f64 as an extended rational: k is "fin", "inf" or "nan", s the sign     *)
(* (0 for zero), n/d the magnitude of a finite value.                      *)

NaN == [k |-> "nan", s |-> 0, n |-> <<>>, d |-> <<1>>]
INFINITY == [k |-> "inf", s |-> 1, n |-> <<>>, d |-> <<1>>]
NEG_INFINITY == [k |-> "inf", s |-> -1, n |-> <<>>, d |-> <<1>>]
Zero == [k |-> "fin", s |-> 0, n |-> <<>>, d |-> <<1>>]

Inf(s) == IF s < 0 THEN NEG_INFINITY ELSE INFINITY

Raw(s, n, d) == [k |-> "fin", s |-> s, n |-> n, d |-> d]

Reduce(s, n, d, g) ==
    IF g = <<1>> THEN Raw(s, n, d)
    ELSE Raw(s, BDivMod(n, g)[1], BDivMod(d, g)[1])

\* the finite value s * n / d, in lowest terms
Fin(s, n, d) ==
    IF n = <<>> \/ s = 0 THEN Zero
    ELSE IF d = <<1>> THEN Raw(s, n, d)
    ELSE Reduce(s, n, d, BGcd(n, d))

Abs(p) == IF p < 0 THEN -p ELSE p

\* the literal p / q, q > 0, in lowest terms
Q(p, q) ==
    IF p = 0 THEN Zero
    ELSE LET g == Gcd(Abs(p), q)
         IN  [k |-> "fin", s |-> IF p < 0 THEN -1 ELSE 1,
              n |-> Limbs(Abs(p) \div g), d |-> Limbs(q \div g)]

IsNaN(x) == x.k = "nan"
IsFinite(x) == x.k = "fin"

FNeg(x) == [x EXCEPT !.s = -x.s]

FMul(x, y) ==
    IF IsNaN(x) \/ IsNaN(y) THEN NaN
    ELSE IF x.k = "inf" \/ y.k = "inf"
         THEN (IF x.s = 0 \/ y.s = 0 THEN NaN ELSE Inf(x.s * y.s))
    ELSE Fin(x.s * y.s, BMul(x.n, y.n), BMul(x.d, y.d))

FDiv(x, y) ==
    IF IsNaN(x) \/ IsNaN(y) THEN NaN
    ELSE IF x.k = "inf"
         THEN (IF y.k = "inf" THEN NaN ELSE Inf(IF y.s < 0 THEN -x.s ELSE x.s))
    ELSE IF y.k = "inf" THEN Zero
    ELSE IF y.s = 0 THEN (IF x.s = 0 THEN NaN ELSE Inf(x.s))
    ELSE Fin(x.s * y.s, BMul(x.n, y.d), BMul(x.d, y.n))

\* the sum of the signed naturals sa*a and sb*b, over the denominator d;
\* c is BCmp(a, b)
SignedSum(sa, a, sb, b, d, c) ==
    Fin(IF sa = sb \/ c > 0 THEN sa ELSE IF c < 0 THEN sb ELSE 0,
        IF sa = sb THEN BAdd(a, b) ELSE IF c > 0 THEN BSub(a, b)
        ELSE IF c < 0 THEN BSub(b, a) ELSE <<>>,
        d)

SumOver(sa, a, sb, b, d) == SignedSum(sa, a, sb, b, d, BCmp(a, b))

FAdd(x, y) ==
    IF IsNaN(x) \/ IsNaN(y) THEN NaN
    ELSE IF x.k = "inf"
         THEN (IF y.k = "inf" /\ y.s # x.s THEN NaN ELSE x)
    ELSE IF y.k = "inf" THEN y
    ELSE IF x.s = 0 THEN y
    ELSE IF y.s = 0 THEN x
    ELSE SumOver(x.s, IF x.d = y.d THEN x.n ELSE BMul(x.n, y.d),
                 y.s, IF x.d = y.d THEN y.n ELSE BMul(y.n, x.d),
                 IF x.d = y.d THEN x.d ELSE BMul(x.d, y.d))

FSub(x, y) == FAdd(x, FNeg(y))

\* -1, 0, 1 as x < y, x = y, x > y; neither is NaN
FCmp(x, y) ==
    IF x.k = "inf" THEN (IF y.k = "inf" /\ y.s = x.s THEN 0 ELSE x.s)
    ELSE IF y.k = "inf" THEN -y.s
    ELSE IF x.s # y.s THEN (IF x.s < y.s THEN -1 ELSE 1)
    ELSE IF x.s = 0 THEN 0
    ELSE x.s * BCmp(BMul(x.n, y.d), BMul(y.n, x.d))

\* the comparisons of IEEE-754: false when an operand is NaN
FEq(x, y) == ~IsNaN(x) /\ ~IsNaN(y) /\ FCmp(x, y) = 0
FLt(x, y) == ~IsNaN(x) /\ ~IsNaN(y) /\ FCmp(x, y) < 0
FLe(x, y) == ~IsNaN(x) /\ ~IsNaN(y) /\ FCmp(x, y) <= 0

\* f64::min and f64::max: the other operand when one is NaN
FMin(x, y) == IF IsNaN(x) THEN y ELSE IF IsNaN(y) THEN x
              ELSE IF FCmp(y, x) < 0 THEN y ELSE x
FMax(x, y) == IF IsNaN(x) THEN y ELSE IF IsNaN(y) THEN x
              ELSE IF FCmp(y, x) > 0 THEN y ELSE x

----------------------------------------------------------------------------
(* Rounded arithmetic.  An operation of f64 or f32 returns the value with  *)
(* a significand of p bits (53 or 24) nearest to the exact result, ties to *)
(* even.  The exponent range is not bounded: the values of the calls below *)
(* lie far inside it.                                                      *)

RECURSIVE Pow2(_)
Pow2(k) == IF k < 13 THEN Limbs(2^k) ELSE BMulSmall(Pow2(k - 13), 8192)

\* s * m * 2^e in lowest terms, for m > 0
RECURSIVE Dyadic(_, _, _)
Dyadic(s, m, e) ==
    IF e >= 0 THEN Raw(s, BMul(m, Pow2(e)), <<1>>)
    ELSE IF m[1] % 16 = 0 /\ e <= -4 THEN Dyadic(s, BDivSmall(m, 16), e + 4)
    ELSE IF m[1] % 2 = 0 THEN Dyadic(s, BDivSmall(m, 2), e + 1)
    ELSE Raw(s, m, Pow2(-e))

\* q without its lowest bits, until it is less than top:
\* <<what is left, whether a dropped bit was set, the number of dropped bits>>
RECURSIVE Narrow(_, _, _, _)
Narrow(q, sticky, e, top) ==
    IF BCmp(q, top) < 0 THEN <<q, sticky, e>>
    ELSE IF BCmp(q, BMulSmall(top, 4096)) >= 0
         THEN Narrow(BDivSmall(q, 4096),
                     sticky \/ ModSmallFrom(q, 4096, Len(q), 0) # 0, e + 12, top)
    ELSE Narrow(BDivSmall(q, 2), sticky \/ q[1] % 2 = 1, e + 1, top)

\* the nearest value to (t[1] + a fraction) * 2^(t[3] - k), where t[1] holds
\* the significand and a guard bit, and t[2] tells whether the fraction or a
\* dropped bit is not zero
Nearest(s, t, k) ==
    Dyadic(s,
           IF t[1][1] % 2 = 1 /\ (t[2] \/ t[1][1] % 4 = 3)
           THEN BAdd(BDivSmall(t[1], 2), <<1>>) ELSE BDivSmall(t[1], 2),
           t[3] + 1 - k)

RoundQuot(s, qr, k, p) ==
    Nearest(s, Narrow(qr[1], qr[2] # <<>>, 0, Pow2(p + 1)), k)

RoundShift(s, n, d, k, p) == RoundQuot(s, BDivMod(BMul(n, Pow2(k)), d), k, p)

\* the exponent of a small power of two, -1 for any other number
Log2Small(d) ==
    IF d \in {2^k : k \in 0..13} THEN CHOOSE k \in 0..13 : 2^k = d ELSE -1

\* the exponent of a power of two, -1 for any other number
RECURSIVE Log2(_)

Log2Next(r) == IF r < 0 THEN -1 ELSE r + 12

Log2(d) ==
    IF Len(d) = 1 THEN Log2Small(d[1])
    ELSE IF ModSmallFrom(d, 4096, Len(d), 0) # 0 THEN -1
    ELSE Log2Next(Log2(BDivSmall(d, 4096)))

\* the value of precision p nearest to s * n / 2^j
RoundDyadic(s, n, j, p) ==
    IF BCmp(n, Pow2(p)) < 0 THEN Dyadic(s, n, -j)
    ELSE Nearest(s, Narrow(n, FALSE, 0, Pow2(p + 1)), j)

\* the scaling that leaves a quotient n * 2^k / d of more than p + 1 bits
QuotBits(n, d, p) ==
    p + 2 + 14 * (IF Len(d) + 1 >= Len(n) THEN Len(d) + 1 - Len(n) ELSE 0)

RoundLog(s, n, d, j, p) ==
    IF j >= 0 THEN RoundDyadic(s, n, j, p)
    ELSE RoundShift(s, n, d, QuotBits(n, d, p), p)

\* the value of precision p nearest to s * n / d
RoundRaw(s, n, d, p) ==
    IF n = <<>> \/ s = 0 THEN Zero ELSE RoundLog(s, n, d, Log2(d), p)

\* the f64 (p = 53) or f32 (p = 24) nearest to x
Round(x, p) == IF x.k # "fin" THEN x ELSE RoundRaw(x.s, x.n, x.d, p)

RMul(x, y, p) ==
    IF IsNaN(x) \/ IsNaN(y) THEN NaN
    ELSE IF x.k = "inf" \/ y.k = "inf"
         THEN (IF x.s = 0 \/ y.s = 0 THEN NaN ELSE Inf(x.s * y.s))
    ELSE RoundRaw(x.s * y.s, BMul(x.n, y.n), BMul(x.d, y.d), p)

\* the quotient of two values of the format comes from their numerators
RDivLog(x, y, jx, jy, k, p) ==
    IF jx >= 0 /\ jy >= 0
    THEN RoundQuot(x.s * y.s, BDivMod(BMul(x.n, Pow2(k)), y.n), k + jx - jy, p)
    ELSE RoundRaw(x.s * y.s, BMul(x.n, y.d), BMul(x.d, y.n), p)

RDiv(x, y, p) ==
    IF IsNaN(x) \/ IsNaN(y) THEN NaN
    ELSE IF x.k = "inf"
         THEN (IF y.k = "inf" THEN NaN ELSE Inf(IF y.s < 0 THEN -x.s ELSE x.s))
    ELSE IF y.k = "inf" THEN Zero
    ELSE IF y.s = 0 THEN (IF x.s = 0 THEN NaN ELSE Inf(x.s))
    ELSE IF x.s = 0 THEN Zero
    ELSE RDivLog(x, y, Log2(x.d), Log2(y.d), QuotBits(x.n, y.n, p), p)

\* SignedSum, rounded
RSum(sa, a, sb, b, d, c, p) ==
    RoundRaw(IF sa = sb \/ c > 0 THEN sa ELSE IF c < 0 THEN sb ELSE 0,
             IF sa = sb THEN BAdd(a, b) ELSE IF c > 0 THEN BSub(a, b)
             ELSE IF c < 0 THEN BSub(b, a) ELSE <<>>,
             d, p)

RSumOver(sa, a, sb, b, d, p) == RSum(sa, a, sb, b, d, BCmp(a, b), p)

RAdd(x, y, p) ==
    IF IsNaN(x) \/ IsNaN(y) THEN NaN
    ELSE IF x.k = "inf"
         THEN (IF y.k = "inf" /\ y.s # x.s THEN NaN ELSE x)
    ELSE IF y.k = "inf" THEN y
    ELSE IF x.s = 0 THEN y
    ELSE IF y.s = 0 THEN x
    ELSE RSumOver(x.s, IF x.d = y.d THEN x.n ELSE BMul(x.n, y.d),
                  y.s, IF x.d = y.d THEN y.n ELSE BMul(y.n, x.d),
                  IF x.d = y.d THEN x.d ELSE BMul(x.d, y.d), p)

RSub(x, y, p) == RAdd(x, FNeg(y), p)

\* the integer square root of w, by Newton's iteration from x >= sqrt(w)
RECURSIVE NewtonSqrt(_, _)

NewtonNext(w, x, y) == IF BCmp(y, x) >= 0 THEN x ELSE NewtonSqrt(w, y)

NewtonHalf(w, x, q) ==
    IF ~Eager(q) THEN x ELSE NewtonNext(w, x, BDivSmall(BAdd(x, q), 2))

NewtonSqrt(w, x) == NewtonHalf(w, x, BDivMod(w, x)[1])

\* <<the integer square root of qr[1], whether qr[1] + qr[2] / d is not its square>>
SqrtOf(qr, r) == <<r, qr[2] # <<>> \/ BMul(r, r) # qr[1]>>

RECURSIVE SmallRoot(_, _)
SmallRoot(v, x) == IF (x + v \div x) \div 2 >= x THEN x ELSE SmallRoot(v, (x + v \div x) \div 2)

\* a value not below the square root of w, and within a small factor of it
SqrtStart(w, top) ==
    [i \in 1..(Len(w) - 1) \div 2 |-> 0] \o Limbs(SmallRoot(top, Base) + 1)

SqrtQuot(qr) ==
    SqrtOf(qr, NewtonSqrt(qr[1], SqrtStart(qr[1],
        IF Len(qr[1]) % 2 = 1 THEN qr[1][Len(qr[1])]
        ELSE qr[1][Len(qr[1])] * Base + qr[1][Len(qr[1]) - 1])))

\* the square root of n / 4^h: the root of n * 4^k is taken to p + 1 bits or more
SqrtShift(rs, k, p) == Nearest(1, Narrow(rs[1], rs[2], 0, Pow2(p + 1)), k)

SqrtRaw(n, h, k, p) == SqrtShift(SqrtQuot(<<BMul(n, Pow2(2 * k)), <<>>>>), k + h, p)

SqrtEven(n, j, p) ==
    SqrtRaw(n, j \div 2, IF 6 * (Len(n) - 1) > p THEN 0 ELSE p + 1 - 6 * (Len(n) - 1), p)

\* sqrt(), correctly rounded; x is a value of the format, so x.d is a power of two
SqrtLog(x, j, p) ==
    IF j % 2 = 1 THEN SqrtEven(BMulSmall(x.n, 2), j + 1, p) ELSE SqrtEven(x.n, j, p)

RSqrt(x, p) ==
    IF IsNaN(x) \/ x.s < 0 THEN NaN
    ELSE IF x.k = "inf" \/ x.s = 0 THEN x
    ELSE SqrtLog(x, Log2(x.d), p)

----------------------------------------------------------------------------
(* src/matrix.rs                                                           *)

One == Q(1, 1)

\* Option<Matrix>, and the outcome of a call that panics
None == <<"None">>
Some(m) == <<"Some", m>>
Panic == <<"Panic">>
IsPanic(v) == Len(v) = 1 /\ v[1] = "Panic"
unwrap(o) == IF o[1] = "Some" THEN o[2] ELSE Panic

IDENTITY ==
    << <<One, Zero, Zero>>, <<Zero, One, Zero>>, <<Zero, Zero, One>> >>

TO_LMS_HUNT ==
    << <<Q(38971, 100000), Q(68898, 100000), Q(-7868, 100000)>>,
       <<Q(-22981, 100000), Q(118340, 100000), Q(4641, 100000)>>,
       <<Zero, Zero, One>> >>

TO_RGB_BRADFORD ==
    << <<Q(8951, 10000), Q(2664, 10000), Q(-1614, 10000)>>,
       <<Q(-7502, 10000), Q(17135, 10000), Q(367, 10000)>>,
       <<Q(389, 10000), Q(-685, 10000), Q(10296, 10000)>> >>

\* a [f64; 3] or a Matrix built index by index
Array3(f) == <<>> \o f

transform_color(color, m) ==
    Array3([i \in 1..3 |->
        FAdd(FAdd(FMul(color[1], m[i][1]), FMul(color[2], m[i][2])),
             FMul(color[3], m[i][3]))])

\* multiply() with the operands of each product exchanged: b first, then a
multiply_b_first(a, b) ==
    Array3([i \in 1..3 |-> Array3([j \in 1..3 |->
        FAdd(FAdd(FMul(a[i][1], b[1][j]), FMul(a[i][2], b[2][j])),
             FMul(a[i][3], b[3][j]))])])

multiply(a, b) ==
    Array3([i \in 1..3 |-> Array3([j \in 1..3 |->
        FAdd(FAdd(FMul(b[i][1], a[1][j]), FMul(b[i][2], a[2][j])),
             FMul(b[i][3], a[3][j]))])])

\* the loop of compose() multiplying on the wrong side
RECURSIVE ComposeFromRight(_, _, _)
ComposeFromRight(temp, matrices, i) ==
    IF i > Len(matrices) THEN temp
    ELSE ComposeFromRight(multiply(matrices[i], temp), matrices, i + 1)

RECURSIVE ComposeFrom(_, _, _)
ComposeFrom(temp, matrices, i) ==
    IF i > Len(matrices) THEN temp
    ELSE ComposeFrom(multiply(temp, matrices[i]), matrices, i + 1)

\* compose() without its assertion: the empty product
compose_unchecked(matrices) ==
    IF matrices = <<>> THEN IDENTITY
    ELSE ComposeFrom(matrices[1], matrices, 2)

compose(matrices) ==
    IF matrices = <<>> THEN Panic
    ELSE ComposeFrom(matrices[1], matrices, 2)

\* a cofactor with the wrong sign between its products
CofactorSum(p, q, r, s, invdet) == FMul(FAdd(FMul(p, q), FMul(r, s)), invdet)

\* (p * q - r * s) * invdet
Cofactor(p, q, r, s, invdet) == FMul(FSub(FMul(p, q), FMul(r, s)), invdet)

\* inverse() with a tolerance in place of the exact-zero test
InverseOfTolerant(m, a, b, c, d, det, invdet) ==
    IF FLt(det, Q(1, 1000000)) /\ FLt(Q(-1, 1000000), det) THEN None
    ELSE Some(
      << << FMul(a, invdet),
            Cofactor(m[1][3], m[3][2], m[1][2], m[3][3], invdet),
            Cofactor(m[1][2], m[2][3], m[1][3], m[2][2], invdet) >>,
         << FMul(FSub(c, b), invdet),
            Cofactor(m[1][1], m[3][3], m[1][3], m[3][1], invdet),
            Cofactor(m[2][1], m[1][3], m[1][1], m[2][3], invdet) >>,
         << FMul(FSub(d, FMul(m[3][1], m[2][2])), invdet),
            Cofactor(m[3][1], m[1][2], m[1][1], m[3][2], invdet),
            Cofactor(m[1][1], m[2][2], m[2][1], m[1][2], invdet) >> >>)

\* the body of inverse() after its common subexpressions
InverseOf(m, a, b, c, d, det, invdet) ==
    IF FEq(det, Zero) THEN None
    ELSE Some(
      << << FMul(a, invdet),
            Cofactor(m[1][3], m[3][2], m[1][2], m[3][3], invdet),
            Cofactor(m[1][2], m[2][3], m[1][3], m[2][2], invdet) >>,
         << FMul(FSub(c, b), invdet),
            Cofactor(m[1][1], m[3][3], m[1][3], m[3][1], invdet),
            Cofactor(m[2][1], m[1][3], m[1][1], m[2][3], invdet) >>,
         << FMul(FSub(d, FMul(m[3][1], m[2][2])), invdet),
            Cofactor(m[3][1], m[1][2], m[1][1], m[3][2], invdet),
            Cofactor(m[1][1], m[2][2], m[2][1], m[1][2], invdet) >> >>)

InverseDet(m, a, b, c, d, det) == InverseOf(m, a, b, c, d, det, FDiv(One, det))

InverseMisc(m, a, b, c, d) ==
    InverseDet(m, a, b, c, d,
        FAdd(FSub(FMul(m[1][1], a), FMul(m[1][2], FSub(b, c))),
             FMul(m[1][3], FSub(d, FMul(m[2][2], m[3][1])))))

inverse(m) ==
    InverseMisc(m,
        FSub(FMul(m[2][2], m[3][3]), FMul(m[3][2], m[2][3])),
        FMul(m[2][1], m[3][3]),
        FMul(m[2][3], m[3][1]),
        FMul(m[2][1], m[3][2]))

\* (p.1 - 1.0) + p.1 * (x + z)
RowTerm(p, x, z) == FAdd(FSub(p[2], One), FMul(p[2], FAdd(x, z)))

\* 1.0 - p.0 - p.1
ThirdCoord(p) == FSub(FSub(One, p[1]), p[2])

\* the matrix of rgb_to_xyz_matrix() from its row scale factors
AssembleMatrix(chroma, sr, sg, sb) ==
    Array3([i \in 1..3 |->
        LET co(p) == IF i = 3 THEN ThirdCoord(p) ELSE p[i]
        IN  <<FMul(sr, co(chroma.r)), FMul(sg, co(chroma.g)), FMul(sb, co(chroma.b))>>])

\* the scale factors of rgb_to_xyz_matrix() from x, z and d
ScaleFactors(chroma, x, z, d) ==
    AssembleMatrix(chroma,
        FDiv(FAdd(FSub(FMul(x, FSub(chroma.b[2], chroma.g[2])),
                       FMul(chroma.g[1], RowTerm(chroma.b, x, z))),
                  FMul(chroma.b[1], RowTerm(chroma.g, x, z))), d),
        FDiv(FSub(FAdd(FMul(x, FSub(chroma.r[2], chroma.b[2])),
                       FMul(chroma.r[1], RowTerm(chroma.b, x, z))),
                  FMul(chroma.b[1], RowTerm(chroma.r, x, z))), d),
        FDiv(FAdd(FSub(FMul(x, FSub(chroma.g[2], chroma.r[2])),
                       FMul(chroma.r[1], RowTerm(chroma.g, x, z))),
                  FMul(chroma.g[1], RowTerm(chroma.r, x, z))), d))

rgb_to_xyz_matrix(chroma) ==
    ScaleFactors(chroma,
        FDiv(chroma.w[1], chroma.w[2]),
        FDiv(FSub(FSub(One, chroma.w[1]), chroma.w[2]), chroma.w[2]),
        FAdd(FAdd(FMul(chroma.r[1], FSub(chroma.b[2], chroma.g[2])),
                  FMul(chroma.b[1], FSub(chroma.g[2], chroma.r[2]))),
             FMul(chroma.g[1], FSub(chroma.r[2], chroma.b[2]))))

xyz_to_rgb_matrix(chroma) == unwrap(inverse(rgb_to_xyz_matrix(chroma)))

\* multiply(), or the panic of the unwrap() that computed to_rgb
MultiplyOrPanic(to_xyz, to_rgb) ==
    IF IsPanic(to_rgb) THEN Panic ELSE multiply(to_xyz, to_rgb)

rgb_to_rgb_matrix(src, dst) ==
    MultiplyOrPanic(rgb_to_xyz_matrix(src), xyz_to_rgb_matrix(dst))

\* the XYZ of a white point's chromaticity coordinates
WhiteXYZ(w) ==
    <<FDiv(w[1], w[2]), One, FDiv(FSub(FSub(One, w[1]), w[2]), w[2])>>

ToAbc(method) ==
    CASE method = "XYZScale" -> IDENTITY
      [] method = "Hunt" -> TO_LMS_HUNT
      [] method = "Bradford" -> TO_RGB_BRADFORD

\* the Von Kries scaling with its ratios upside down
AdaptationOfInverted(to_abc, from_abc, src_w_abc, dst_w_abc) ==
    IF IsPanic(from_abc) THEN Panic
    ELSE compose(<< to_abc,
                    << <<FDiv(src_w_abc[1], dst_w_abc[1]), Zero, Zero>>,
                       <<Zero, FDiv(src_w_abc[2], dst_w_abc[2]), Zero>>,
                       <<Zero, Zero, FDiv(src_w_abc[3], dst_w_abc[3])>> >>,
                    from_abc >>)

\* the combined matrix leaving the response space by to_abc again
AdaptationOfNoReturn(to_abc, from_abc, src_w_abc, dst_w_abc) ==
    IF IsPanic(from_abc) THEN Panic
    ELSE compose(<< to_abc,
                    << <<FDiv(dst_w_abc[1], src_w_abc[1]), Zero, Zero>>,
                       <<Zero, FDiv(dst_w_abc[2], src_w_abc[2]), Zero>>,
                       <<Zero, Zero, FDiv(dst_w_abc[3], src_w_abc[3])>> >>,
                    to_abc >>)

\* the Von Kries matrix and the combined matrix of
\* xyz_chromatic_adaptation_matrix()
AdaptationOf(to_abc, from_abc, src_w_abc, dst_w_abc) ==
    IF IsPanic(from_abc) THEN Panic
    ELSE compose(<< to_abc,
                    << <<FDiv(dst_w_abc[1], src_w_abc[1]), Zero, Zero>>,
                       <<Zero, FDiv(dst_w_abc[2], src_w_abc[2]), Zero>>,
                       <<Zero, Zero, FDiv(dst_w_abc[3], src_w_abc[3])>> >>,
                    from_abc >>)

AdaptationIn(to_abc, src_w_xyz, dst_w_xyz) ==
    AdaptationOf(to_abc, unwrap(inverse(to_abc)),
                 transform_color(src_w_xyz, to_abc),
                 transform_color(dst_w_xyz, to_abc))

xyz_chromatic_adaptation_matrix(src_w, dst_w, method) ==
    AdaptationIn(ToAbc(method), WhiteXYZ(src_w), WhiteXYZ(dst_w))

\* ==, element for element
ColorEq(x, y) == \A i \in 1..3 : FEq(x[i], y[i])
MatrixEq(a, b) == \A i \in 1..3 : \A j \in 1..3 : FEq(a[i][j], b[i][j])

----------------------------------------------------------------------------
(* src/chroma.rs                                                           *)

E == <<FDiv(One, Q(3, 1)), FDiv(One, Q(3, 1))>>

XYZ ==
    [r |-> <<One, Zero>>, g |-> <<Zero, One>>, b |-> <<Zero, Zero>>, w |-> E]

REC709 ==
    [r |-> <<Q(640, 1000), Q(330, 1000)>>, g |-> <<Q(300, 1000), Q(600, 1000)>>,
     b |-> <<Q(150, 1000), Q(60, 1000)>>, w |-> <<Q(3127, 10000), Q(3290, 10000)>>]

ACES_AP0 ==
    [r |-> <<Q(73470, 100000), Q(26530, 100000)>>, g |-> <<Zero, One>>,
     b |-> <<Q(10, 100000), Q(-7700, 100000)>>,
     w |-> <<Q(32168, 100000), Q(33767, 100000)>>]

----------------------------------------------------------------------------
(* src/transforms.rs, rgb_gamut                                            *)

BBOX_MAXT_ADJUST == Round(Q(100000024, 100000000), 53)

\* the check for a hit, at the end of bbox_intersect()
BboxHit(near_hit_t, far_hit_t) ==
    IF FLe(near_hit_t, far_hit_t)
    THEN Some(FMin(FMax(near_hit_t, Zero), One))
    ELSE None

\* near_hit_t and far_hit_t of bbox_intersect()
BboxNearFar(near_t, far_t) ==
    BboxHit(FMax(FMax(near_t[1], near_t[2]), near_t[3]),
            RMul(FMin(FMin(FMin(far_t[1], far_t[2]), far_t[3]), One),
                 BBOX_MAXT_ADJUST, 53))

\* near_t and far_t of bbox_intersect()
BboxSlabs(t1, t2) ==
    BboxNearFar(Array3([i \in 1..3 |-> FMin(t1[i], t2[i])]),
                Array3([i \in 1..3 |-> FMax(t1[i], t2[i])]))

\* (bound[i] - from[i]) * dir_inv[i], for the three axes
SlabT(from, dir_inv, bound) ==
    Array3([i \in 1..3 |-> RMul(RSub(bound[i], from[i], 53), dir_inv[i], 53)])

bbox_intersect(from, dir_inv, box_min, box_max) ==
    BboxSlabs(SlabT(from, dir_inv, box_min), SlabT(from, dir_inv, box_max))

\* the hit point of intersect()
HitPoint(from, dir, hit_t) ==
    Array3([i \in 1..3 |-> FMax(RAdd(from[i], RMul(dir[i], hit_t, 53), 53), Zero)])

\* the match on the two hits of intersect()
HitT(from, to, dir, positive_hit_t, negative_hit_t) ==
    IF positive_hit_t[1] = "None" /\ negative_hit_t[1] = "None" THEN to
    ELSE IF negative_hit_t[1] = "None" THEN HitPoint(from, dir, positive_hit_t[2])
    ELSE IF positive_hit_t[1] = "None" THEN HitPoint(from, dir, negative_hit_t[2])
    ELSE HitPoint(from, dir, FMin(positive_hit_t[2], negative_hit_t[2]))

Splat(x) == <<x, x, x>>

\* intersect() after dir and dir_inv
IntersectDir(from, to, dir, dir_inv, use_ceiling, use_floor) ==
    HitT(from, to, dir,
         bbox_intersect(from, dir_inv, Splat(Zero),
                        IF use_ceiling THEN Splat(One) ELSE Splat(INFINITY)),
         IF use_floor THEN None
         ELSE bbox_intersect(from, dir_inv, Splat(NEG_INFINITY), Splat(Zero)))

DirInv(dir) == Array3([i \in 1..3 |-> RDiv(One, dir[i], 53)])

IntersectWith(from, to, dir, use_ceiling, use_floor) ==
    IntersectDir(from, to, dir, DirInv(dir), use_ceiling, use_floor)

Dir(from, to) == Array3([i \in 1..3 |-> RSub(to[i], from[i], 53)])

intersect(from, to, use_ceiling, use_floor) ==
    IntersectWith(from, to, Dir(from, to), use_ceiling, use_floor)

----------------------------------------------------------------------------
(* src/transforms.rs, rgb_gamut: the clips and soft_clamp, in f64          *)
(* arithmetic: every operation is rounded to 53 bits.                      *)

\* soft_clamp() after the first remap: x is the remapped x, q is 1.0 - p
SoftClampRemapped(x, p, q) ==
    RAdd(RMul(RDiv(x, RSqrt(RAdd(RMul(x, x, 53), One, 53), 53), 53), q, 53), p, 53)

\* soft_clamp() remapping every x when protected is below 1.0
soft_clamp_remaps_all(x, protected) ==
    IF FLe(One, protected) THEN FMin(x, One)
    ELSE SoftClampRemapped(RDiv(RSub(x, protected, 53), RSub(One, protected, 53), 53),
                           protected, RSub(One, protected, 53))

soft_clamp(x, protected) ==
    IF FLe(One, protected) \/ FLe(x, protected) THEN FMin(x, One)
    ELSE SoftClampRemapped(RDiv(RSub(x, protected, 53), RSub(One, protected, 53), 53),
                           protected, RSub(One, protected, 53))

\* the lerp of open_domain_clip(); u is 1.0 - t
OpenLerp(rgb, gray_level, t, u) ==
    Array3([i \in 1..3 |-> RAdd(RMul(gray_level, u, 53), RMul(rgb[i], t, 53), 53)])

\* open_domain_clip() after t
OpenT(rgb, gray_level, t) == OpenLerp(rgb, gray_level, t, RSub(One, t, 53))

\* open_domain_clip() returning rgb only below a saturation of zero
OpenSaturationStrict(rgb, gray_level, protected, saturation) ==
    IF FLt(saturation, Zero) THEN rgb
    ELSE OpenT(rgb, gray_level, RDiv(soft_clamp(saturation, protected), saturation, 53))

\* open_domain_clip() after saturation
OpenSaturation(rgb, gray_level, protected, saturation) ==
    IF FLe(saturation, Zero) THEN rgb
    ELSE OpenT(rgb, gray_level, RDiv(soft_clamp(saturation, protected), saturation, 53))

open_domain_clip(rgb, gray_level, protected) ==
    IF FLe(gray_level, Zero) THEN Splat(Zero)
    ELSE OpenSaturation(rgb, gray_level, protected,
             RDiv(RSub(gray_level, FMin(FMin(rgb[1], rgb[2]), rgb[3]), 53), gray_level, 53))

\* the literal 1.0e-15: the f64 nearest to 1 / 10^15
EPSILON == Round(Raw(1, <<1>>, <<0, 0, 0, 1000>>), 53)

\* f64::clamp(0.0, 1.0)
Clamp01(x) == IF FLt(x, Zero) THEN Zero ELSE IF FLt(One, x) THEN One ELSE x

\* the mix of closed_domain_clip(); u is 1.0 - t
ClosedMix(scaled_rgb, t, u) ==
    Array3([i \in 1..3 |-> RAdd(RMul(scaled_rgb[i], u, 53), t, 53)])

\* closed_domain_clip() after t
ClosedT(scaled_rgb, t) == ClosedMix(scaled_rgb, t, RSub(One, t, 53))

\* closed_domain_clip() after scaled_rgb, scaled_gray_level and clamped_gray_level
ClosedScaled(scaled_rgb, scaled_gray_level, clamped_gray_level) ==
    IF FLe(clamped_gray_level, scaled_gray_level) THEN scaled_rgb
    ELSE ClosedT(scaled_rgb,
                 Clamp01(RDiv(RSub(clamped_gray_level, scaled_gray_level, 53),
                              RSub(One, scaled_gray_level, 53), 53)))

\* closed_domain_clip() after fac
ClosedFac(rgb, gray_level, fac) ==
    ClosedScaled(Array3([i \in 1..3 |-> RMul(rgb[i], fac, 53)]),
                 RMul(gray_level, fac, 53), Clamp01(gray_level))

\* closed_domain_clip() returning black only below EPSILON
ClosedMaxBelow(rgb, gray_level, protected, max_component) ==
    IF FLt(max_component, EPSILON) THEN Splat(Zero)
    ELSE ClosedFac(rgb, gray_level,
                   RDiv(soft_clamp(max_component, protected), max_component, 53))

\* closed_domain_clip() after max_component
ClosedMax(rgb, gray_level, protected, max_component) ==
    IF FLe(max_component, EPSILON) THEN Splat(Zero)
    ELSE ClosedFac(rgb, gray_level,
                   RDiv(soft_clamp(max_component, protected), max_component, 53))

closed_domain_clip(rgb, gray_level, protected) ==
    ClosedMax(rgb, gray_level, protected, FMax(FMax(rgb[1], rgb[2]), rgb[3]))

----------------------------------------------------------------------------
(* Calls of the matrix functions.  A call starts with pc = "ready" and its *)
(* function and arguments in call, and returns by setting ret.             *)

MaxCompose == 3

\* the matrices of tests::compose_test
m1 == << <<Q(2, 1), Q(3, 1), Q(4, 1)>>, <<Q(5, 1), Q(6, 1), Q(7, 1)>>,
         <<Q(8, 1), Q(9, 1), Q(10, 1)>> >>
m2 == << <<Q(64, 1), Q(16, 1), Q(8, 1)>>, <<Q(4, 1), Q(2, 1), Q(1, 1)>>,
         <<Q(1, 2), Q(1, 4), Q(1, 8)>> >>
m3 == << <<Q(5, 1), Q(624, 10), Q(77, 10)>>, <<Q(4, 1), Q(23, 1), Q(21, 10)>>,
         <<Q(1266, 100), Q(83, 10), Q(42, 1)>> >>
\* a shear, which commutes with none of the above
Shear == << <<One, Q(2, 1), Zero>>, <<Zero, One, Zero>>, <<Q(-3, 1), Zero, One>> >>
\* determinant 10^-9
NearSingular == << <<One, One, Zero>>, <<One, Q(1000000001, 1000000000), Zero>>,
                   <<Zero, Zero, One>> >>

ComposeMats == {m1, m2, m3, Shear}

Mats == ComposeMats \cup
    {IDENTITY, NearSingular, TO_LMS_HUNT, TO_RGB_BRADFORD,
     rgb_to_xyz_matrix(REC709), rgb_to_xyz_matrix(ACES_AP0)}

Colors ==
    { <<Zero, Zero, Zero>>, <<One, Zero, Zero>>, <<Zero, One, Zero>>,
      <<Zero, Zero, One>>, <<One, One, One>>, <<Q(1, 2), Q(-2, 1), Q(3, 1)>> }

RECURSIVE SeqsOfLen(_, _)
SeqsOfLen(S, n) ==
    IF n = 0 THEN {<<>>}
    ELSE {Append(s, x) : s \in SeqsOfLen(S, n - 1), x \in S}

MatrixInit ==
    /\ pc = "ready"
    /\ ret = <<>>
    /\ \/ \E a \in Mats, b \in Mats : call = [fn |-> "multiply", a |-> a, b |-> b]
       \/ \E m \in Mats : call = [fn |-> "inverse", m |-> m]
       \/ \E n \in 0..MaxCompose : \E s \in SeqsOfLen(ComposeMats, n) :
             call = [fn |-> "compose", matrices |-> s]
       \/ \E x \in Colors, m \in Mats :
             call = [fn |-> "transform_color", color |-> x, m |-> m]

Multiply ==
    /\ pc = "ready" /\ call.fn = "multiply"
    /\ ret' = multiply(call.a, call.b)
    /\ pc' = "done" /\ UNCHANGED call

Inverse ==
    /\ pc = "ready" /\ call.fn = "inverse"
    /\ ret' = inverse(call.m)
    /\ pc' = "done" /\ UNCHANGED call

Compose ==
    /\ pc = "ready" /\ call.fn = "compose"
    /\ ret' = compose(call.matrices)
    /\ pc' = "done" /\ UNCHANGED call

TransformColor ==
    /\ pc = "ready" /\ call.fn = "transform_color"
    /\ ret' = transform_color(call.color, call.m)
    /\ pc' = "done" /\ UNCHANGED call

MatrixNext == Multiply \/ Inverse \/ Compose \/ TransformColor

MatrixSpec == MatrixInit /\ [][MatrixNext]_vars

Returned(fn) == pc = "done" /\ call.fn = fn

----------------------------------------------------------------------------
(* Calls of the functions that build matrices from chromaticities.         *)

D65 == <<Q(31271, 100000), Q(32902, 100000)>>

\* a white point with Z = 0, and one with y = 0
WhiteNoZ == <<Q(1, 2), Q(1, 2)>>
WhiteNoY == <<Q(3, 10), Zero>>

Whites == {REC709.w, D65, E, WhiteNoZ, WhiteNoY}

Methods == {"XYZScale", "Hunt", "Bradford"}

\* the primaries of XYZ with the white point on the line through g and b
EdgeWhite == [XYZ EXCEPT !.w = <<Zero, Q(1, 2)>>]
\* REC709 with a white point of y = 0
REC709NoY == [REC709 EXCEPT !.w = WhiteNoY]
\* three primaries on one line
Collinear ==
    [r |-> <<Zero, Zero>>, g |-> <<Q(1, 2), Q(1, 2)>>, b |-> <<One, One>>, w |-> E]

Spaces == {XYZ, REC709, ACES_AP0, EdgeWhite, REC709NoY, Collinear}

AdaptInit ==
    /\ pc = "ready"
    /\ ret = <<>>
    /\ \/ \E src_w \in Whites, dst_w \in Whites, method \in Methods :
             call = [fn |-> "xyz_chromatic_adaptation_matrix",
                     src_w |-> src_w, dst_w |-> dst_w, method |-> method]
       \/ \E src \in Spaces, dst \in Spaces :
             call = [fn |-> "rgb_to_rgb_matrix", src |-> src, dst |-> dst]

XyzChromaticAdaptationMatrix ==
    /\ pc = "ready" /\ call.fn = "xyz_chromatic_adaptation_matrix"
    /\ ret' = xyz_chromatic_adaptation_matrix(call.src_w, call.dst_w, call.method)
    /\ pc' = "done" /\ UNCHANGED call

RgbToRgbMatrix ==
    /\ pc = "ready" /\ call.fn = "rgb_to_rgb_matrix"
    /\ ret' = rgb_to_rgb_matrix(call.src, call.dst)
    /\ pc' = "done" /\ UNCHANGED call

AdaptNext == XyzChromaticAdaptationMatrix \/ RgbToRgbMatrix

AdaptSpec == AdaptInit /\ [][AdaptNext]_vars

----------------------------------------------------------------------------
(* Calls of rgb_gamut::intersect.                                          *)

\* channel values of from are the halves from -1 to MaxChan / 2
MaxChan == 3

Chan == {Q(k, 2) : k \in -2..MaxChan}
ToChan == {Zero, Q(1, 2), One}

\* the literal k/10: the f64 nearest to it
Tenth(k) == Round(Q(k, 10), 53)

\* channel values that are not dyadic: the differences, the quotients and
\* the products of intersect() are rounded
TenthChan == {Tenth(-7), Tenth(13), Tenth(23)}
TenthToChan == {Tenth(1), Tenth(3), Tenth(9)}

GamutInit ==
    /\ pc = "ready"
    /\ ret = <<>>
    /\ \/ \E f1 \in Chan, f2 \in Chan, f3 \in Chan,
             t1 \in ToChan, t2 \in ToChan, t3 \in ToChan,
             use_ceiling \in BOOLEAN, use_floor \in BOOLEAN :
             call = [fn |-> "intersect", from |-> <<f1, f2, f3>>,
                     to |-> <<t1, t2, t3>>,
                     use_ceiling |-> use_ceiling, use_floor |-> use_floor]
       \/ \E f1 \in TenthChan, f2 \in {Zero, Q(1, 2)}, f3 \in {Q(1, 2), Tenth(13)},
             t1 \in TenthToChan, t2 \in TenthToChan, t3 \in ToChan,
             use_ceiling \in BOOLEAN, use_floor \in BOOLEAN :
             call = [fn |-> "intersect", from |-> <<f1, f2, f3>>,
                     to |-> <<t1, t2, t3>>,
                     use_ceiling |-> use_ceiling, use_floor |-> use_floor]

Intersect ==
    /\ pc = "ready" /\ call.fn = "intersect"
    /\ ret' = intersect(call.from, call.to, call.use_ceiling, call.use_floor)
    /\ pc' = "done" /\ UNCHANGED call

GamutNext == Intersect

GamutSpec == GamutInit /\ [][GamutNext]_vars

----------------------------------------------------------------------------
(* Calls of open_domain_clip, closed_domain_clip and soft_clamp.           *)

ClipChan == {Q(-1, 1), Zero, EPSILON, Tenth(2), Q(1, 2), One, Q(2, 1), INFINITY}
Protected == {Zero, Q(1, 2), Tenth(8), One}

\* colors with three different channels, and the grays
ClipColors ==
    {<<r, g, b>> : r \in {Q(-1, 1), Q(1, 2), Q(2, 1)}, g \in {Zero, Tenth(2), One},
                   b \in {Q(1, 2), Q(2, 1)}}
    \cup {Splat(g) : g \in ClipChan}

ClipInit ==
    /\ pc = "ready"
    /\ ret = <<>>
    /\ \/ \E fn \in {"open_domain_clip", "closed_domain_clip"}, rgb \in ClipColors,
             gray_level \in ClipChan, protected \in Protected :
             call = [fn |-> fn, rgb |-> rgb, gray_level |-> gray_level,
                     protected |-> protected]
       \/ \E x \in ClipChan \cup {Tenth(8), NaN},
             protected \in Protected \cup {Q(-1, 1), Q(2, 1)} :
             call = [fn |-> "soft_clamp", x |-> x, protected |-> protected]

OpenDomainClip ==
    /\ pc = "ready" /\ call.fn = "open_domain_clip"
    /\ ret' = open_domain_clip(call.rgb, call.gray_level, call.protected)
    /\ pc' = "done" /\ UNCHANGED call

ClosedDomainClip ==
    /\ pc = "ready" /\ call.fn = "closed_domain_clip"
    /\ ret' = closed_domain_clip(call.rgb, call.gray_level, call.protected)
    /\ pc' = "done" /\ UNCHANGED call

SoftClamp ==
    /\ pc = "ready" /\ call.fn = "soft_clamp"
    /\ ret' = soft_clamp(call.x, call.protected)
    /\ pc' = "done" /\ UNCHANGED call

ClipNext == OpenDomainClip \/ ClosedDomainClip \/ SoftClamp

ClipSpec == ClipInit /\ [][ClipNext]_vars

----------------------------------------------------------------------------
(* The binary-search clips rgb_clip and oklab_clip.  A call holds the      *)
(* out-of-gamut point from and the in-gamut point target; while the loop   *)
(* runs (pc = "bisect"), ret holds the locals from, target and the count   *)
(* of iterations done.  rgb_clip searches over rgb triples, oklab_clip     *)
(* over (lightness, chroma, hue) triples towards the gray of zero chroma;  *)
(* what the rgb gamut is along its segment is the chroma limit of the call.*)

BisectIterations == 32

BisectFns == {"rgb_clip", "oklab_clip"}

Midpoint(a, b) == Array3([i \in 1..3 |-> FMul(FAdd(a[i], b[i]), Q(1, 2))])

BisectInGamut(c, x) ==
    IF c.fn = "rgb_clip" THEN \A i \in 1..3 : FLe(Zero, x[i]) /\ FLe(x[i], One)
    ELSE FLe(x[2], c.limit)

BisectInit ==
    /\ pc = "ready"
    /\ ret = <<>>
    /\ \/ \E from \in {<<Q(2, 1), Q(1, 2), Q(1, 2)>>, <<Q(-1, 1), Q(1, 2), Q(2, 1)>>,
                       Splat(Q(3, 2)), <<Q(-1, 2), Zero, Q(1, 4)>>},
             target \in {Splat(Zero), Splat(Q(1, 2)), Splat(One)} :
             call = [fn |-> "rgb_clip", from |-> from, target |-> target]
       \/ \E from \in {<<Q(1, 2), Q(1, 2), Zero>>, <<Q(3, 4), Q(1, 4), One>>},
             limit \in {Zero, Q(1, 8), Q(3, 16)} :
             call = [fn |-> "oklab_clip", from |-> from,
                     target |-> <<from[1], Zero, from[3]>>, limit |-> limit]

BisectStart ==
    /\ pc = "ready" /\ call.fn \in BisectFns
    /\ ret' = [from |-> call.from, target |-> call.target, i |-> 0]
    /\ pc' = "bisect" /\ UNCHANGED call

\* one iteration that moves target to a midpoint outside the gamut
BisectMidOutside(mid) ==
    IF BisectInGamut(call, mid) THEN [ret EXCEPT !.from = mid, !.i = @ + 1]
    ELSE [ret EXCEPT !.target = mid, !.i = @ + 1]

\* one iteration, after the midpoint
BisectMid(mid) ==
    IF BisectInGamut(call, mid) THEN [ret EXCEPT !.target = mid, !.i = @ + 1]
    ELSE [ret EXCEPT !.from = mid, !.i = @ + 1]

BisectStep ==
    /\ pc = "bisect" /\ ret.i < BisectIterations
    /\ ret' = BisectMid(Midpoint(ret.from, ret.target))
    /\ UNCHANGED <<pc, call>>

BisectReturn ==
    /\ pc = "bisect" /\ ret.i >= BisectIterations
    /\ ret' = ret.target
    /\ pc' = "done" /\ UNCHANGED call

BisectNext == BisectStart \/ BisectStep \/ BisectReturn

BisectSpec == BisectInit /\ [][BisectNext]_vars

----------------------------------------------------------------------------
(* src/lut.rs, resample, in f32 arithmetic: every operation is rounded to  *)
(* 24 bits.  Tables are sequences, indexed from 1.                         *)

\* `j as usize` for the j of resample(): truncation, and 0 for a NaN
AsUsize(j) == IF j.k = "fin" /\ j.s > 0 THEN Small(BDivMod(j.n, j.d)[1]) ELSE 0

\* the lerp of resample() with the two weights exchanged
ResampleLerpSwapped(old_table, j1, alpha) ==
    RAdd(RMul(old_table[j1 + 1], alpha, 24),
         RMul(old_table[j1 + 2], RSub(One, alpha, 24), 24), 24)

\* the lerp of resample(), after alpha
ResampleLerp(old_table, j1, alpha) ==
    RAdd(RMul(old_table[j1 + 1], RSub(One, alpha, 24), 24),
         RMul(old_table[j1 + 2], alpha, 24), 24)

\* resample() after j1
ResampleAt(old_table, j, j1) ==
    IF j1 + 1 >= Len(old_table) THEN old_table[Len(old_table)]
    ELSE ResampleLerp(old_table, j1, RSub(j, Q(j1, 1), 24))

\* resample() after j
ResampleJ(old_table, j) == ResampleAt(old_table, j, AsUsize(j))

\* the y of resample() without the tests of x against 0.0 and 1.0
ResampleYUnclamped(old_table, x) ==
    ResampleJ(old_table, RMul(x, Q(Len(old_table) - 1, 1), 24))

\* the y of resample(), for the x mapped to the old range
ResampleY(old_table, x) ==
    IF FLe(x, Zero) THEN old_table[1]
    ELSE IF FLe(One, x) THEN old_table[Len(old_table)]
    ELSE ResampleJ(old_table, RMul(x, Q(Len(old_table) - 1, 1), 24))

\* the x of sample i (from 0) of resample(), mapped to the old range
ResampleX(i, new_samples, offset, norm) ==
    RAdd(offset, RMul(RDiv(Q(i, 1), Q(new_samples - 1, 1), 24), norm, 24), 24)

\* resample() after offset and norm
ResampleLoop(new_samples, old_table, offset, norm) ==
    <<>> \o [i \in 1..new_samples |->
                ResampleY(old_table, ResampleX(i - 1, new_samples, offset, norm))]

\* resample() after the width of the old range
ResampleOver(new_samples, new_range_x, old_table, old_range_x, width) ==
    ResampleLoop(new_samples, old_table,
                 RDiv(RSub(new_range_x[1], old_range_x[1], 24), width, 24),
                 RDiv(RSub(new_range_x[2], new_range_x[1], 24), width, 24))

resample(new_samples, new_range_x, old_table, old_range_x) ==
    ResampleOver(new_samples, new_range_x, old_table, old_range_x,
                 RSub(old_range_x[2], old_range_x[1], 24))

----------------------------------------------------------------------------
(* Calls of resample.                                                      *)

\* the table of k samples 0.0, 1.0, ..., k - 1
Ramp(k) == <<>> \o [i \in 1..k |-> Q(i - 1, 1)]

LutTables == {<<Zero, One>>, <<Zero, Q(1, 4), One>>, <<One, Zero, Q(1, 2), Q(3, 4), Q(1, 4)>>,
              Ramp(14)}

\* the ranges of tests::resample_01 to resample_06
LutRanges == {<<Zero, One>>, <<Q(1, 4), Q(3, 4)>>, <<Q(-1, 4), Q(5, 4)>>, <<Q(1, 4), Q(5, 4)>>,
              <<Q(-1, 4), Q(3, 4)>>, <<Q(-1, 2), Q(3, 2)>>, <<Q(1, 2), Q(3, 2)>>}

\* new ranges 13 wide, whose sample 7 of 14 is at 0.0 and just below 0.0
LutWideRanges == {<<Q(-7, 1), Q(6, 1)>>, <<Q(-7, 1), FSub(Q(6, 1), Dyadic(1, <<1>>, -21))>>}

\* a constant table, and a table of one sample
LutFlatTables == {<<Q(15, 8), Q(15, 8)>>, <<Q(1, 2)>>}

LutInit ==
    /\ pc = "ready"
    /\ ret = <<>>
    /\ \/ \E new_samples \in {2, 3, 5, 14}, new_range_x \in LutRanges,
             old_table \in LutTables, old_range_x \in LutRanges :
             call = [fn |-> "resample", new_samples |-> new_samples,
                     new_range_x |-> new_range_x, old_table |-> old_table,
                     old_range_x |-> old_range_x]
       \/ \E new_range_x \in LutWideRanges, old_table \in LutTables :
             call = [fn |-> "resample", new_samples |-> 14,
                     new_range_x |-> new_range_x, old_table |-> old_table,
                     old_range_x |-> <<Zero, One>>]
       \/ \E new_range_x \in LutRanges, old_table \in LutFlatTables,
             old_range_x \in {<<Zero, One>>, <<Q(1, 2), Q(1, 2)>>} :
             call = [fn |-> "resample", new_samples |-> 4,
                     new_range_x |-> new_range_x, old_table |-> old_table,
                     old_range_x |-> old_range_x]

Resample ==
    /\ pc = "ready" /\ call.fn = "resample"
    /\ ret' = resample(call.new_samples, call.new_range_x, call.old_table, call.old_range_x)
    /\ pc' = "done" /\ UNCHANGED call

LutNext == Resample

LutSpec == LutInit /\ [][LutNext]_vars

----------------------------------------------------------------------------
(* src/lut.rs, resample_inv, in f32 arithmetic.  The locals of the loop    *)
(* are a record: new_table, old_i_1, old_i_2 (indices from 0, as in the    *)
(* source), the two norms, and panic for an index out of bounds.           *)

\* the while loop that also steps past a sample equal to new_x
RECURSIVE InvScanPastEqual(_, _, _, _)
InvScanPastEqual(old_table, new_x, old_i_1, old_i_2) ==
    IF old_i_2 >= Len(old_table)
    THEN [old_i_1 |-> old_i_1, old_i_2 |-> old_i_2, panic |-> TRUE]
    ELSE IF FLe(old_table[old_i_2 + 1], new_x)
    THEN InvScanPastEqual(old_table, new_x, old_i_1 + 1, old_i_2 + 1)
    ELSE [old_i_1 |-> old_i_1, old_i_2 |-> old_i_2, panic |-> FALSE]

\* the while loop of resample_inv(): the interval that contains new_x
RECURSIVE InvScan(_, _, _, _)
InvScan(old_table, new_x, old_i_1, old_i_2) ==
    IF old_i_2 >= Len(old_table)
    THEN [old_i_1 |-> old_i_1, old_i_2 |-> old_i_2, panic |-> TRUE]
    ELSE IF FLt(old_table[old_i_2 + 1], new_x)
    THEN InvScan(old_table, new_x, old_i_1 + 1, old_i_2 + 1)
    ELSE [old_i_1 |-> old_i_1, old_i_2 |-> old_i_2, panic |-> FALSE]

\* the x of old_coords_1 and old_coords_2
InvCoord(old_range_x, old_i, old_norm) ==
    RAdd(old_range_x[1], RMul(Q(old_i, 1), old_norm, 24), 24)

\* the alpha of resample_inv() without the division by the height of the
\* interval
InvAlphaUnscaled(new_x, y1, tmp) ==
    IF FLt(Zero, tmp) THEN RSub(new_x, y1, 24) ELSE Zero

\* the alpha of resample_inv(), after tmp
InvAlpha(new_x, y1, tmp) ==
    IF FLt(Zero, tmp) THEN RDiv(RSub(new_x, y1, 24), tmp, 24) ELSE Zero

\* new_y
InvY(x1, x2, alpha) == RAdd(x1, RMul(alpha, RSub(x2, x1, 24), 24), 24)

\* resample_inv(), the interpolation in the interval found
InvInterpolate(old_table, old_range_x, old_norm, new_x, old_i_1, old_i_2) ==
    InvY(InvCoord(old_range_x, old_i_1, old_norm),
         InvCoord(old_range_x, old_i_2, old_norm),
         InvAlpha(new_x, old_table[old_i_1 + 1],
                  RSub(old_table[old_i_2 + 1], old_table[old_i_1 + 1], 24)))

\* new_table.push(y), with the indices the scan has left
InvPush(st, y, old_i_1, old_i_2) ==
    [st EXCEPT !.new_table = Append(st.new_table, y),
               !.old_i_1 = old_i_1, !.old_i_2 = old_i_2]

\* the last branch of the loop body, after the scan
InvFound(old_table, old_range_x, new_x, st, scan) ==
    IF scan.panic THEN [st EXCEPT !.panic = TRUE]
    ELSE InvPush(st, InvInterpolate(old_table, old_range_x, st.old_norm, new_x,
                                    scan.old_i_1, scan.old_i_2),
                 scan.old_i_1, scan.old_i_2)

\* the loop body that clamps a low new_x only before the scan has advanced
InvSampleClampsAtStart(old_table, old_range_x, new_x, st) ==
    IF Len(old_table) = 0 THEN [st EXCEPT !.panic = TRUE]
    ELSE IF FLt(new_x, old_table[1]) /\ st.old_i_1 = 0
    THEN InvPush(st, old_range_x[1], st.old_i_1, st.old_i_2)
    ELSE IF FLt(old_table[Len(old_table)], new_x)
    THEN InvPush(st, old_range_x[2], st.old_i_1, st.old_i_2)
    ELSE InvFound(old_table, old_range_x, new_x, st,
                  InvScan(old_table, new_x, st.old_i_1, st.old_i_2))

\* the loop body without the test of new_x against the last value
InvSampleScansHigh(old_table, old_range_x, new_x, st) ==
    IF Len(old_table) = 0 THEN [st EXCEPT !.panic = TRUE]
    ELSE IF FLt(new_x, old_table[1])
    THEN InvPush(st, old_range_x[1], st.old_i_1, st.old_i_2)
    ELSE InvFound(old_table, old_range_x, new_x, st,
                  InvScan(old_table, new_x, st.old_i_1, st.old_i_2))

\* the loop body of resample_inv(), after new_x
InvSample(old_table, old_range_x, new_x, st) ==
    IF Len(old_table) = 0 THEN [st EXCEPT !.panic = TRUE]
    ELSE IF FLt(new_x, old_table[1])
    THEN InvPush(st, old_range_x[1], st.old_i_1, st.old_i_2)
    ELSE IF FLt(old_table[Len(old_table)], new_x)
    THEN InvPush(st, old_range_x[2], st.old_i_1, st.old_i_2)
    ELSE InvFound(old_table, old_range_x, new_x, st,
                  InvScan(old_table, new_x, st.old_i_1, st.old_i_2))

\* new_x for sample i (from 0)
InvX(i, new_range_x, new_norm) ==
    RAdd(new_range_x[1], RMul(Q(i, 1), new_norm, 24), 24)

\* one iteration of the for loop
InvIter(new_range_x, old_table, old_range_x, st) ==
    InvSample(old_table, old_range_x,
              InvX(Len(st.new_table), new_range_x, st.new_norm), st)

\* the locals of resample_inv() before the loop; old_table.len() - 1
\* underflows for an empty table
InvLocals(new_samples, new_range_x, old_table, old_range_x) ==
    [new_table |-> <<>>, old_i_1 |-> 0, old_i_2 |-> 1,
     panic |-> Len(old_table) = 0,
     old_norm |-> RDiv(RSub(old_range_x[2], old_range_x[1], 24),
                       Q(Len(old_table) - 1, 1), 24),
     new_norm |-> RDiv(RSub(new_range_x[2], new_range_x[1], 24),
                       Q(new_samples - 1, 1), 24)]

\* the for loop of resample_inv(): the locals when it ends or panics
RECURSIVE InvLoop(_, _, _, _, _)
InvLoop(new_samples, new_range_x, old_table, old_range_x, st) ==
    IF st.panic \/ Len(st.new_table) >= new_samples THEN st
    ELSE InvLoop(new_samples, new_range_x, old_table, old_range_x,
                 InvIter(new_range_x, old_table, old_range_x, st))

\* the locals of resample_inv() at its end
InvRun(new_samples, new_range_x, old_table, old_range_x) ==
    InvLoop(new_samples, new_range_x, old_table, old_range_x,
            InvLocals(new_samples, new_range_x, old_table, old_range_x))

\* what resample_inv() returns with the locals st
InvResult(st) == IF st.panic THEN Panic ELSE st.new_table

resample_inv(new_samples, new_range_x, old_table, old_range_x) ==
    InvResult(InvRun(new_samples, new_range_x, old_table, old_range_x))

----------------------------------------------------------------------------
(* Calls of resample_inv, one step for each iteration of its for loop.     *)

\* the table of tests::resample_inv_04 (f(n) = 2n over (-1, 2)), strictly
\* increasing, flat, unordered and one-sample tables, and a table with a NaN
InvTables == {<<Q(-2, 1), Q(4, 1)>>, <<Zero, Q(1, 4), One>>, <<Zero, Zero, One, One>>,
              <<Zero, Q(1, 8), Q(1, 4), Q(1, 2), One>>,
              <<Zero, Q(3, 4), Q(1, 4), Q(1, 2), One>>,
              <<One, Zero, Q(1, 2), Q(3, 4), Q(1, 4)>>, <<Zero, NaN, One>>,
              <<Q(1, 2)>>, <<>>}

InvNewRanges == {<<Q(-2, 1), Q(4, 1)>>, <<Zero, One>>, <<Q(-1, 4), Q(5, 4)>>,
                 <<Q(1, 4), Q(3, 4)>>, <<Q(5, 4), Q(-1, 4)>>}

InvOldRanges == {<<Q(-1, 1), Q(2, 1)>>, <<Zero, One>>, <<Q(1, 10), Q(9, 10)>>}

InvInit ==
    /\ pc = "ready"
    /\ ret = <<>>
    /\ \/ \E new_samples \in {2, 3, 5, 7}, new_range_x \in InvNewRanges,
             old_table \in InvTables, old_range_x \in InvOldRanges :
             call = [fn |-> "resample_inv", new_samples |-> new_samples,
                     new_range_x |-> new_range_x, old_table |-> old_table,
                     old_range_x |-> old_range_x]
       \/ call = [fn |-> "resample_inv", new_samples |-> 113,
                  new_range_x |-> <<Q(-2, 1), Q(4, 1)>>,
                  old_table |-> <<Q(-2, 1), Q(4, 1)>>,
                  old_range_x |-> <<Q(-1, 1), Q(2, 1)>>]

\* the locals are set up; an empty table panics
InvStart ==
    /\ pc = "ready" /\ call.fn = "resample_inv"
    /\ IF Len(call.old_table) = 0
       THEN ret' = Panic /\ pc' = "done"
       ELSE /\ ret' = InvLocals(call.new_samples, call.new_range_x,
                                call.old_table, call.old_range_x)
            /\ pc' = "loop"
    /\ UNCHANGED call

\* the loop continues with the locals st, or the call panics
InvContinue(st) ==
    IF st.panic THEN ret' = Panic /\ pc' = "done"
    ELSE ret' = st /\ pc' = "loop"

InvStep ==
    /\ pc = "loop" /\ Len(ret.new_table) < call.new_samples
    /\ InvContinue(InvIter(call.new_range_x, call.old_table, call.old_range_x, ret))
    /\ UNCHANGED call

InvReturn ==
    /\ pc = "loop" /\ Len(ret.new_table) >= call.new_samples
    /\ ret' = ret.new_table
    /\ pc' = "done" /\ UNCHANGED call

InvNext == InvStart \/ InvStep \/ InvReturn

InvSpec == InvInit /\ [][InvNext]_vars

----------------------------------------------------------------------------
(* src/lut.rs, Lut1D.  A Lut1D is the pair of its ranges and its tables;   *)
(* channel and the indices count from 0, as in the source.                 *)

Lut1D(ranges, tables) == <<ranges, tables>>

\* the outcome of a call that returns an f32 and has panicked
Panicked == [k |-> "panic", s |-> 0, n |-> <<>>, d |-> <<1>>]

\* the new range taken from the first table alone
SharedRangeOfFirst(tables, i, range) == <<tables[1][1], tables[1][Len(tables[1])]>>

\* resample_inverted(), the new range of a shared range: the fold over the
\* tables from table i on
RECURSIVE SharedRange(_, _, _)
SharedRange(tables, i, range) ==
    IF i > Len(tables) THEN range
    ELSE SharedRange(tables, i + 1,
                     <<FMin(range[1], tables[i][1]),
                       FMax(range[2], tables[i][Len(tables[i])])>>)

\* the LUT of the new ranges and of the tables that the calls of
\* resample_inv() have left in runs, unless one of them has panicked
InvertedLut(ranges, runs) ==
    IF \E i \in 1..Len(runs) : runs[i].panic THEN Panic
    ELSE Lut1D(ranges, <<>> \o [i \in 1..Len(runs) |-> runs[i].new_table])

\* resample_inverted() with one range, after the new range
InvertedShared(range, tables, samples, new_range) ==
    InvertedLut(<<new_range>>,
                <<>> \o [i \in 1..Len(tables) |->
                            InvRun(samples, new_range, tables[i], range)])

\* the new_range of resample_inverted() for one table
OwnRange(table) == <<table[1], table[Len(table)]>>

\* resample_inverted() with a range for each table
InvertedEach(ranges, tables, samples) ==
    InvertedLut(<<>> \o [i \in 1..Len(tables) |-> OwnRange(tables[i])],
                <<>> \o [i \in 1..Len(tables) |->
                            InvRun(samples, OwnRange(tables[i]), tables[i], ranges[i])])

\* table[0] of an empty table panics, in either branch
resample_inverted(ranges, tables, samples) ==
    IF Len(ranges) # 1 /\ Len(ranges) # Len(tables) THEN Panic
    ELSE IF \E i \in 1..Len(tables) : Len(tables[i]) = 0 THEN Panic
    ELSE IF Len(ranges) = 1
    THEN InvertedShared(ranges[1], tables, samples,
                        SharedRange(tables, 1, <<INFINITY, NEG_INFINITY>>))
    ELSE InvertedEach(ranges, tables, samples)

\* resample_to_single_range(), the fold over the ranges from range i on
RECURSIVE UnionRange(_, _, _)
UnionRange(ranges, i, range) ==
    IF i > Len(ranges) THEN range
    ELSE UnionRange(ranges, i + 1,
                    <<FMin(range[1], ranges[i][1]), FMax(range[2], ranges[i][2])>>)

\* resample_to_single_range() that keeps the ranges of the input
SingleRangeKeepsRanges(ranges, tables, samples, range) ==
    Lut1D(ranges,
          <<>> \o [i \in 1..Len(tables) |->
                      resample(samples, range, tables[i],
                               IF i <= Len(ranges) THEN ranges[i] ELSE ranges[1])])

\* resample_to_single_range(), after the new range
SingleRange(ranges, tables, samples, range) ==
    Lut1D(<<range>>,
          <<>> \o [i \in 1..Len(tables) |->
                      resample(samples, range, tables[i],
                               IF i <= Len(ranges) THEN ranges[i] ELSE ranges[1])])

\* self.ranges[0] panics without a range, and resample() panics on an empty
\* table
resample_to_single_range(ranges, tables, samples) ==
    IF Len(ranges) = 1 /\ \A i \in 1..Len(tables) : Len(tables[i]) = samples
    THEN Lut1D(ranges, tables)
    ELSE IF Len(tables) > 0 /\ Len(ranges) = 0 THEN Panic
    ELSE IF samples > 0 /\ \E i \in 1..Len(tables) : Len(tables[i]) = 0 THEN Panic
    ELSE SingleRange(ranges, tables, samples,
                     UnionRange(ranges, 1, <<INFINITY, NEG_INFINITY>>))

\* look_up(), after i1 and alpha
LookUpLerp(table, i1, alpha) ==
    IF i1 = Len(table) - 1 THEN table[Len(table)]
    ELSE RAdd(table[i1 + 1],
              RMul(RSub(table[i1 + 2], table[i1 + 1], 24), alpha, 24), 24)

\* look_up(), after (table.len() - 1) as f32 * t
LookUpAt(table, scaled, i1) == LookUpLerp(table, i1, RSub(scaled, Q(i1, 1), 24))

\* look_up(), after table and range
LookUpIn(table, range, n) ==
    LookUpAt(table,
             RMul(Q(Len(table) - 1, 1),
                  Clamp01(RDiv(RSub(n, range[1], 24),
                               RSub(range[2], range[1], 24), 24)), 24),
             AsUsize(RMul(Q(Len(table) - 1, 1),
                          Clamp01(RDiv(RSub(n, range[1], 24),
                                       RSub(range[2], range[1], 24), 24)), 24)))

\* the two assertions of look_up() and of look_up_inv()
LookUpAsserts(ranges, tables, channel) ==
    /\ channel < Len(tables)
    /\ Len(ranges) = 1 \/ Len(ranges) = Len(tables)

\* the range of a channel
RangeOf(ranges, channel) ==
    IF Len(ranges) = 1 THEN ranges[1] ELSE ranges[channel + 1]

\* table.len() - 1 underflows for an empty table
look_up(ranges, tables, n, channel) ==
    IF ~LookUpAsserts(ranges, tables, channel) THEN Panicked
    ELSE IF Len(tables[channel + 1]) = 0 THEN Panicked
    ELSE LookUpIn(tables[channel + 1], RangeOf(ranges, channel), n)

\* what binary_search_by() may return for a sorted table: <<"Ok", i>> for
\* any i with table[i] == n, and otherwise <<"Err", i>> with the index i
\* where n could be inserted
BinarySearch(table, n) ==
    IF \E i \in 1..Len(table) : FEq(table[i], n)
    THEN {<<"Ok", i - 1>> : i \in {j \in 1..Len(table) : FEq(table[j], n)}}
    ELSE {<<"Err", Cardinality({j \in 1..Len(table) : FLt(table[j], n)})>>}

\* the (i1, i2) of look_up_inv(); i - 1 underflows for Ok(0)
LookUpInvPair(found) ==
    IF found[1] = "Err" /\ found[2] = 0 THEN <<0, 1>>
    ELSE <<found[2] - 1, found[2]>>

\* look_up_inv(), after out_1 and out_2
LookUpInvLerp(table, range, n, i1, i2, out_1, out_2) ==
    IF FEq(table[i1 + 1], table[i2 + 1])
    THEN RMul(RAdd(out_1, out_2, 24), Q(1, 2), 24)
    ELSE RAdd(RMul(RAdd(out_1,
                        RMul(RSub(out_2, out_1, 24),
                             RDiv(RSub(n, table[i1 + 1], 24),
                                  RSub(table[i2 + 1], table[i1 + 1], 24), 24), 24), 24),
                   RSub(range[2], range[1], 24), 24),
              range[1], 24)

\* look_up_inv(), after (i1, i2): an index below 0 or beyond the table panics
LookUpInvAt(table, range, n, pair) ==
    IF pair[1] < 0 \/ pair[2] >= Len(table) THEN Panicked
    ELSE LookUpInvLerp(table, range, n, pair[1], pair[2],
                       RDiv(Q(pair[1], 1), Q(Len(table) - 1, 1), 24),
                       RDiv(Q(pair[2], 1), Q(Len(table) - 1, 1), 24))

\* look_up_inv() when binary_search_by() returns found; partial_cmp() is
\* None for a NaN, and unwrap() panics
look_up_inv(ranges, tables, n, channel, found) ==
    IF ~LookUpAsserts(ranges, tables, channel) THEN Panicked
    ELSE IF IsNaN(n) THEN Panicked
    ELSE LookUpInvAt(tables[channel + 1], RangeOf(ranges, channel), n,
                     LookUpInvPair(found))

----------------------------------------------------------------------------
(* Calls of the methods of Lut1D.  A look_up() that has returned is        *)
(* followed by look_up_inv() of its result, on the same channel.           *)

Unit == <<Zero, One>>

\* three increasing tables of three samples
Curves == <<<<Zero, Q(1, 4), One>>, <<Q(1, 4), Q(1, 2), Q(3, 4)>>,
            <<Q(-1, 2), Zero, Q(2, 1)>>>>

\* LUTs with one range or one range for each table, with non-decreasing
\* tables, and the LUT of tests::resample_inv_04
SortedLuts ==
    {Lut1D(<<Unit>>, <<Curves[1]>>),
     Lut1D(<<Unit>>, Curves),
     Lut1D(<<Unit, <<Q(-1, 1), Q(2, 1)>>, <<Q(1, 4), Q(3, 4)>>>>, Curves),
     Lut1D(<<Unit>>, <<<<Zero, One>>, <<Zero, Q(1, 2), One>>>>),
     Lut1D(<<Unit>>, <<<<Zero, Zero, One, One>>>>),
     Lut1D(<<<<Q(-1, 1), Q(2, 1)>>>>, <<<<Q(-2, 1), Q(4, 1)>>>>)}

\* LUTs with a table of one sample or of none, Lut1D::default(), an
\* unordered table, and a LUT with two ranges for three tables
OtherLuts ==
    {Lut1D(<<Unit>>, <<<<Q(1, 2)>>>>),
     Lut1D(<<Unit>>, <<<<Zero, One>>, <<Q(1, 2)>>>>),
     Lut1D(<<Unit, Unit>>, <<<<Zero, One>>, <<Q(1, 2)>>>>),
     Lut1D(<<Unit>>, <<<<Zero, One>>, <<>>>>),
     Lut1D(<<>>, <<>>),
     Lut1D(<<Unit>>, <<<<One, Zero, Q(1, 2), Q(3, 4), Q(1, 4)>>>>),
     Lut1D(<<Unit, <<Q(1, 2), Q(2, 1)>>>>, Curves)}

LookUpInputs == {Zero, Q(1, 4), Round(Q(1, 3), 24), Q(1, 2), Q(3, 4), One,
                 Q(-1, 1), Q(2, 1)}

Lut1DInit ==
    /\ pc = "ready"
    /\ ret = <<>>
    /\ \/ \E fn \in {"resample_inverted", "resample_to_single_range"},
             lut \in SortedLuts \cup OtherLuts, samples \in {2, 3, 5} :
             call = [fn |-> fn, ranges |-> lut[1], tables |-> lut[2],
                     samples |-> samples]
       \/ \E fn \in {"look_up", "look_up_inv"},
             lut \in SortedLuts \cup {Lut1D(<<>>, <<>>),
                                      Lut1D(<<Unit, <<Q(1, 2), Q(2, 1)>>>>, Curves)},
             n \in LookUpInputs, channel \in 0..2 :
             call = [fn |-> fn, ranges |-> lut[1], tables |-> lut[2],
                     n |-> n, channel |-> channel]

ResampleInverted ==
    /\ pc = "ready" /\ call.fn = "resample_inverted"
    /\ ret' = resample_inverted(call.ranges, call.tables, call.samples)
    /\ pc' = "done" /\ UNCHANGED call

ResampleToSingleRange ==
    /\ pc = "ready" /\ call.fn = "resample_to_single_range"
    /\ ret' = resample_to_single_range(call.ranges, call.tables, call.samples)
    /\ pc' = "done" /\ UNCHANGED call

\* the caller goes on to look_up_inv() unless look_up() has panicked
LookUpReturns(y) ==
    /\ ret' = y
    /\ pc' = IF y.k = "panic" THEN "done" ELSE "looked up"

LookUp ==
    /\ pc = "ready" /\ call.fn = "look_up"
    /\ LookUpReturns(look_up(call.ranges, call.tables, call.n, call.channel))
    /\ UNCHANGED call

\* look_up_inv(n, channel) with any result of binary_search_by() that the
\* standard library allows
LookUpInvOf(n) ==
    IF ~LookUpAsserts(call.ranges, call.tables, call.channel)
    THEN ret' = Panicked
    ELSE \E found \in BinarySearch(call.tables[call.channel + 1], n) :
            ret' = look_up_inv(call.ranges, call.tables, n, call.channel, found)

LookUpInv ==
    /\ \/ pc = "ready" /\ call.fn = "look_up_inv" /\ LookUpInvOf(call.n)
       \/ pc = "looked up" /\ LookUpInvOf(ret)
    /\ pc' = "done" /\ UNCHANGED call

Lut1DNext == ResampleInverted \/ ResampleToSingleRange \/ LookUp \/ LookUpInv

Lut1DSpec == Lut1DInit /\ [][Lut1DNext]_vars

----------------------------------------------------------------------------
(* src/formats/cube_resolve.rs and src/formats/mod.rs                      *)
(*                                                                         *)
(* A file is a sequence of lines, a line is [io, parts]: io is TRUE when   *)
(* the reader fails on the line, and parts are the parts that              *)
(* split_whitespace gives.  A part is [text, n]:                           *)
(*   "TITLE", "LUT_1D_SIZE", ...   the keyword itself                      *)
(*   "#"                           a text that starts with #               *)
(*   "word"                        another text with n double quotes that  *)
(*                                 does not end with one                   *)
(*   "word\""                      another text with n double quotes that  *)
(*                                 ends with one                           *)
(*   "uint"                        the decimal digits of n                 *)
(*   "dec"                         the decimal text of n / 4: "-0.25"      *)
(*   "inf", "nan"                  the texts inf and NaN                   *)

Part(text, n) == [text |-> text, n |-> n]
Line(parts) == [io |-> FALSE, parts |-> parts]
IoError == [io |-> TRUE, parts |-> <<>>]

FormatErr == <<"Err", "FormatErr">>
IoErr == <<"Err", "IoErr">>

Lut3D(range, resolution, tables) == <<range, resolution, tables>>

\* parse::<usize>() of a part
ParseUsize(part) ==
    IF part.text = "uint" THEN <<"Ok", part.n>> ELSE <<"Err">>

\* parse::<f32>() of a part
ParseF32(part) ==
    IF part.text = "uint" THEN <<"Ok", Round(Q(part.n, 1), 24)>>
    ELSE IF part.text = "dec" THEN <<"Ok", Round(Q(part.n, 4), 24)>>
    ELSE IF part.text = "inf" THEN <<"Ok", INFINITY>>
    ELSE IF part.text = "nan" THEN <<"Ok", NaN>>
    ELSE <<"Err">>

\* the number of double quotes in parts i.. of a line
RECURSIVE QuoteCount(_, _)
QuoteCount(parts, i) ==
    IF i > Len(parts) THEN 0
    ELSE IF parts[i].text \in {"word", "word\""}
         THEN parts[i].n + QuoteCount(parts, i + 1)
    ELSE QuoteCount(parts, i + 1)

\* line.trim().split("\"") has three pieces and the last one is empty
TitleOk(parts) ==
    QuoteCount(parts, 1) = 2 /\ parts[Len(parts)].text = "word\""

\* the branch that the header loop takes for a line
HeaderKind(parts) ==
    IF Len(parts) = 0 THEN "skip"
    ELSE IF parts[1].text = "#" THEN "skip"
    ELSE IF parts[1].text = "TITLE" /\ Len(parts) > 1 THEN "TITLE"
    ELSE IF parts[1].text = "LUT_1D_SIZE" /\ Len(parts) = 2 THEN "LUT_1D_SIZE"
    ELSE IF parts[1].text = "LUT_1D_INPUT_RANGE" /\ Len(parts) = 3
         THEN "LUT_1D_INPUT_RANGE"
    ELSE IF parts[1].text = "LUT_3D_SIZE" /\ Len(parts) = 2 THEN "LUT_3D_SIZE"
    ELSE IF parts[1].text = "LUT_3D_INPUT_RANGE" /\ Len(parts) = 3
         THEN "LUT_3D_INPUT_RANGE"
    ELSE "end"

\* the locals of read() before the header loop; next is the position of lines
ReadLocals ==
    [next |-> 1,
     range_1d |-> <<Zero, One>>, length_1d |-> 0, tables_1d |-> <<<<>>, <<>>, <<>>>>,
     range_3d |-> <<Zero, One>>, size_3d |-> 0, length_3d |-> <<>>,
     tables_3d |-> <<<<>>, <<>>, <<>>>>,
     result |-> <<>>]

ReadReturn(st, result) == [st EXCEPT !.result = result]
LinesNext(st) == [st EXCEPT !.next = st.next + 1]

\* a size line: parts[1].parse::<usize>()?
HeaderSize(st, field, size) ==
    IF size[1] = "Ok" THEN LinesNext([st EXCEPT ![field] = size[2]])
    ELSE ReadReturn(st, FormatErr)

\* a range line: parts[1].parse::<f32>()? and parts[2].parse::<f32>()?
HeaderRange(st, field, low, high) ==
    IF low[1] = "Ok" /\ high[1] = "Ok"
    THEN LinesNext([st EXCEPT ![field] = <<low[2], high[2]>>])
    ELSE ReadReturn(st, FormatErr)

\* one turn of the header loop on a line of the header
HeaderLine(st, parts, kind) ==
    IF kind = "skip" THEN LinesNext(st)
    ELSE IF kind = "TITLE"
         THEN IF TitleOk(parts) THEN LinesNext(st) ELSE ReadReturn(st, FormatErr)
    ELSE IF kind = "LUT_1D_SIZE" THEN HeaderSize(st, "length_1d", ParseUsize(parts[2]))
    ELSE IF kind = "LUT_3D_SIZE" THEN HeaderSize(st, "size_3d", ParseUsize(parts[2]))
    ELSE IF kind = "LUT_1D_INPUT_RANGE"
         THEN HeaderRange(st, "range_1d", ParseF32(parts[2]), ParseF32(parts[3]))
    ELSE HeaderRange(st, "range_3d", ParseF32(parts[2]), ParseF32(parts[3]))

\* the number of values of a usize, on a 64-bit target
UsizeRange == Pow2(64)

\* a * b on usize: <<whether it overflows, the wrapped product>>
UsizeMul(a, b) ==
    <<BCmp(BMul(a, b), UsizeRange) >= 0, BDivMod(BMul(a, b), UsizeRange)[2]>>

\* size_3d * size_3d * size_3d from the square
UsizeCubeOf(size, square) ==
    <<square[1] \/ UsizeMul(square[2], size)[1], UsizeMul(square[2], size)[2]>>

UsizeCube(size) == UsizeCubeOf(size, UsizeMul(size, size))

\* length_3d, or the panic of a build with overflow checks
HeaderLength3D(st, cube, overflow_checks) ==
    IF cube[1] /\ overflow_checks THEN ReadReturn(st, Panic)
    ELSE [st EXCEPT !.length_3d = cube[2]]

\* after the header loop: the check of the header, and length_3d
HeaderEnd(st, overflow_checks) ==
    IF st.length_1d = 0 /\ st.size_3d = 0 THEN ReadReturn(st, FormatErr)
    ELSE HeaderLength3D(st, UsizeCube(Limbs(st.size_3d)), overflow_checks)

\* the three pushes of a data line
PushRow(tables, r, g, b) ==
    <<Append(tables[1], r), Append(tables[2], g), Append(tables[3], b)>>

DataRow1D(st, r, g, b) ==
    IF r[1] = "Ok" /\ g[1] = "Ok" /\ b[1] = "Ok"
    THEN LinesNext([st EXCEPT !.tables_1d = PushRow(st.tables_1d, r[2], g[2], b[2]),
                              !.length_1d = st.length_1d - 1])
    ELSE ReadReturn(st, FormatErr)

DataRow3D(st, r, g, b) ==
    IF r[1] = "Ok" /\ g[1] = "Ok" /\ b[1] = "Ok"
    THEN LinesNext([st EXCEPT !.tables_3d = PushRow(st.tables_3d, r[2], g[2], b[2]),
                              !.length_3d = BSub(st.length_3d, <<1>>)])
    ELSE ReadReturn(st, FormatErr)

\* one turn of the data loop
DataLine(st, line) ==
    IF line.io THEN ReadReturn(st, IoErr)
    ELSE IF Len(line.parts) = 0 THEN LinesNext(st)
    ELSE IF line.parts[1].text = "#" THEN LinesNext(st)
    ELSE IF Len(line.parts) = 3
         THEN IF st.length_1d > 0
              THEN DataRow1D(st, ParseF32(line.parts[1]), ParseF32(line.parts[2]),
                             ParseF32(line.parts[3]))
              ELSE IF st.length_3d /= <<>>
              THEN DataRow3D(st, ParseF32(line.parts[1]), ParseF32(line.parts[2]),
                             ParseF32(line.parts[3]))
              ELSE ReadReturn(st, FormatErr)
    ELSE ReadReturn(st, FormatErr)

AllFinite(table) == \A i \in 1..Len(table) : IsFinite(table[i])

\* the check for non-finite values
ReadFinite(st) ==
    /\ \A c \in 1..3 : AllFinite(st.tables_1d[c]) /\ AllFinite(st.tables_3d[c])
    /\ IsFinite(st.range_1d[1]) /\ IsFinite(st.range_1d[2])
    /\ IsFinite(st.range_3d[1]) /\ IsFinite(st.range_3d[2])

\* the LUT structs of the result
ReadLuts(st) ==
    <<"Ok",
      IF st.tables_1d[1] /= <<>>
      THEN Some(Lut1D(<<st.range_1d>>, st.tables_1d)) ELSE None,
      IF st.tables_3d[1] /= <<>>
      THEN Some(Lut3D(Splat(st.range_3d), Splat(st.size_3d), st.tables_3d)) ELSE None>>

\* after the data loop
ReadEnd(st) ==
    IF st.length_1d > 0 \/ st.length_3d /= <<>> THEN FormatErr
    ELSE IF ~ReadFinite(st) THEN FormatErr
    ELSE ReadLuts(st)
----------------------------------------------------------------------------
(* Calls of cube_resolve::read, a line at a time.                          *)

Row(k) == Line(<<Part("dec", k), Part("dec", k + 1), Part("uint", k)>>)
Comment == Line(<<Part("#", 0), Part("word", 0)>>)
Blank == Line(<<>>)
SizeLine(keyword, n) == Line(<<Part(keyword, 0), Part("uint", n)>>)
RangeLine(keyword, low, high) == Line(<<Part(keyword, 0), low, high>>)

\* LUT_3D_SIZE 4194304: the cube is 2^66
HugeSize == 4096 * 1024

CubeHeaders ==
    {<<>>,
     <<SizeLine("LUT_1D_SIZE", 2)>>,
     <<Comment, Line(<<Part("TITLE", 0), Part("word", 1), Part("word\"", 1)>>),
       SizeLine("LUT_1D_SIZE", 2),
       RangeLine("LUT_1D_INPUT_RANGE", Part("dec", -1), Part("uint", 2))>>,
     <<SizeLine("LUT_3D_SIZE", 1)>>,
     <<SizeLine("LUT_1D_SIZE", 1), Blank, SizeLine("LUT_3D_SIZE", 1),
       RangeLine("LUT_3D_INPUT_RANGE", Part("uint", 0), Part("dec", 6))>>,
     <<SizeLine("LUT_1D_SIZE", 0)>>,
     <<SizeLine("LUT_1D_SIZE", 2), SizeLine("LUT_1D_SIZE", 0)>>,
     <<Line(<<Part("TITLE", 0), Part("word\"", 2), Part("word", 0)>>),
       SizeLine("LUT_1D_SIZE", 2)>>,
     <<Line(<<Part("LUT_1D_SIZE", 0), Part("dec", 8)>>)>>,
     <<SizeLine("LUT_1D_SIZE", 2),
       RangeLine("LUT_1D_INPUT_RANGE", Part("uint", 0), Part("inf", 0))>>,
     <<RangeLine("LUT_3D_INPUT_RANGE", Part("nan", 0), Part("uint", 1)),
       SizeLine("LUT_1D_SIZE", 1)>>,
     <<SizeLine("LUT_1D_SIZE", 2),
       Line(<<Part("LUT_3D_SIZE", 0), Part("uint", 1), Part("word", 0)>>)>>,
     <<SizeLine("LUT_1D_SIZE", 1), IoError>>,
     <<SizeLine("LUT_3D_SIZE", HugeSize)>>,
     <<SizeLine("LUT_1D_SIZE", 1), SizeLine("LUT_3D_SIZE", HugeSize)>>}

CubeBodies ==
    {<<>>,
     <<Row(1)>>,
     <<Row(1), Row(2)>>,
     <<Row(1), Row(2), Row(3)>>,
     <<Row(1), Blank, Comment, Row(2)>>,
     <<Row(1), Line(<<Part("dec", 1), Part("dec", 2)>>)>>,
     <<Row(1), Line(<<Part("dec", 1), Part("inf", 0), Part("dec", 2)>>)>>,
     <<Line(<<Part("word", 0), Part("dec", 1), Part("dec", 2)>>), Row(2)>>,
     <<Row(1), IoError>>,
     <<Line(<<Part("nan", 0), Part("dec", 1), Part("dec", 2)>>), IoError>>,
     <<Row(1), SizeLine("LUT_1D_SIZE", 2)>>,
     <<Row(1), Row(2), IoError>>}

CubeInit ==
    /\ pc = "header"
    /\ ret = ReadLocals
    /\ \E header \in CubeHeaders, body \in CubeBodies, overflow_checks \in BOOLEAN :
          call = [fn |-> "read", lines |-> header \o body,
                  overflow_checks |-> overflow_checks]

\* the line that lines.peek() gives is a line of the header
InHeader(st) ==
    /\ st.next <= Len(call.lines)
    /\ ~call.lines[st.next].io
    /\ HeaderKind(call.lines[st.next].parts) /= "end"

ReadContinue(st, to) ==
    IF st.result = <<>> THEN pc' = to /\ ret' = st
    ELSE pc' = "done" /\ ret' = st.result

ReadHeaderLine ==
    /\ pc = "header" /\ InHeader(ret)
    /\ ReadContinue(HeaderLine(ret, call.lines[ret.next].parts,
                               HeaderKind(call.lines[ret.next].parts)), "header")
    /\ UNCHANGED call

ReadHeaderEnd ==
    /\ pc = "header" /\ ~InHeader(ret)
    /\ ReadContinue(HeaderEnd(ret, call.overflow_checks), "data")
    /\ UNCHANGED call

ReadDataLine ==
    /\ pc = "data" /\ ret.next <= Len(call.lines)
    /\ ReadContinue(DataLine(ret, call.lines[ret.next]), "data")
    /\ UNCHANGED call

ReadReturns ==
    /\ pc = "data" /\ ret.next > Len(call.lines)
    /\ ret' = ReadEnd(ret)
    /\ pc' = "done" /\ UNCHANGED call

CubeNext == ReadHeaderLine \/ ReadHeaderEnd \/ ReadDataLine \/ ReadReturns

CubeSpec == CubeInit /\ [][CubeNext]_vars

----------------------------------------------------------------------------
(* The matrix algebra: multiply, inverse, compose.                         *)

C2_InverseIsTwoSided ==
    Returned("inverse") /\ ret[1] = "Some" =>
        /\ MatrixEq(multiply(call.m, ret[2]), IDENTITY)
        /\ MatrixEq(multiply(ret[2], call.m), IDENTITY)

\* inverse has returned Some for the matrix of tests::matrix_inverse_test
C2_Witness ==
    /\ Returned("inverse") /\ call.m = rgb_to_xyz_matrix(ACES_AP0)
    /\ ret[1] = "Some"
    /\ ~MatrixEq(ret[2], call.m)
    /\ MatrixEq(multiply(call.m, ret[2]), IDENTITY)

\* the determinant of a 3x3 matrix as the sum over the six permutations
Determinant(m) ==
    FSub(FAdd(FAdd(FMul(FMul(m[1][1], m[2][2]), m[3][3]),
                   FMul(FMul(m[1][2], m[2][3]), m[3][1])),
              FMul(FMul(m[1][3], m[2][1]), m[3][2])),
         FAdd(FAdd(FMul(FMul(m[1][3], m[2][2]), m[3][1]),
                   FMul(FMul(m[1][2], m[2][1]), m[3][3])),
              FMul(FMul(m[1][1], m[2][3]), m[3][2])))

\* C3: inverse(m) returns None exactly when the determinant of m is exactly
\* zero and Some(matrix) for every other m, near-singular ones included, and
\* it never panics
C3_InverseNoneIffSingular ==
    Returned("inverse") =>
        /\ ~IsPanic(ret)
        /\ ret[1] \in {"None", "Some"}
        /\ (ret[1] = "None") <=> FEq(Determinant(call.m), Zero)

\* inverse has returned Some for a matrix of determinant 10^-9
C3_Witness ==
    /\ Returned("inverse") /\ call.m = NearSingular
    /\ FEq(Determinant(call.m), Q(1, 1000000000))
    /\ ret[1] = "Some"

\* the product of a non-empty list of matrices, grouped from the left
RECURSIVE LeftFold(_)
LeftFold(s) ==
    IF Len(s) = 1 THEN s[1]
    ELSE multiply(LeftFold(SubSeq(s, 1, Len(s) - 1)), s[Len(s)])

\* C4: compose of a non-empty list is the left-to-right fold of multiply:
\* compose([a]) is a, and compose([a, b, c]) is multiply(multiply(a, b), c)
\* element for element
C4_ComposeIsLeftFold ==
    Returned("compose") /\ Len(call.matrices) > 0 =>
        /\ MatrixEq(ret, LeftFold(call.matrices))
        /\ Len(call.matrices) = 1 => MatrixEq(ret, call.matrices[1])
        /\ Len(call.matrices) = 3 =>
              MatrixEq(ret, multiply(multiply(call.matrices[1], call.matrices[2]),
                                     call.matrices[3]))

\* compose has returned for the three matrices of tests::compose_test
C4_Witness ==
    /\ Returned("compose") /\ call.matrices = <<m1, m2, m3>>
    /\ MatrixEq(ret, multiply(multiply(m1, m2), m3))
    /\ ~MatrixEq(ret, multiply(multiply(m3, m2), m1))

\* C5: compose of an empty list panics and returns no matrix
C5_ComposeEmptyPanics ==
    Returned("compose") /\ Len(call.matrices) = 0 => IsPanic(ret)

\* compose has been called with the empty list
C5_Witness == Returned("compose") /\ call.matrices = <<>> /\ IsPanic(ret)

----------------------------------------------------------------------------
(* Chromatic adaptation and colour space conversion.                       *)

\* the response to a white point in the space of a method
Response(w, method) == transform_color(WhiteXYZ(w), ToAbc(method))

\* a white point with y /= 0 whose response has no zero component
Adaptable(w, method) ==
    /\ ~FEq(w[2], Zero)
    /\ \A i \in 1..3 : ~FEq(Response(w, method)[i], Zero)

Cross(p, q, r) ==
    FSub(FMul(FSub(q[1], p[1]), FSub(r[2], p[2])),
         FMul(FSub(q[2], p[2]), FSub(r[1], p[1])))

NonCollinear(chroma) == ~FEq(Cross(chroma.r, chroma.g, chroma.b), Zero)

\* non-collinear primaries, and a white point with y /= 0 that lies on no
\* line through two of them
Invertible(chroma) ==
    /\ NonCollinear(chroma)
    /\ ~FEq(chroma.w[2], Zero)
    /\ ~FEq(Cross(chroma.w, chroma.g, chroma.b), Zero)
    /\ ~FEq(Cross(chroma.w, chroma.r, chroma.b), Zero)
    /\ ~FEq(Cross(chroma.w, chroma.r, chroma.g), Zero)

----------------------------------------------------------------------------
(* rgb_gamut::intersect.                                                   *)

Ceiling(use_ceiling) == IF use_ceiling THEN Splat(One) ELSE Splat(INFINITY)

\* every channel >= 0, and <= 1 under a ceiling
InGamut(c, use_ceiling) ==
    \A i \in 1..3 : FLe(Zero, c[i]) /\ FLe(c[i], Ceiling(use_ceiling)[i])

\* C8: intersect returns from unchanged whenever from lies in the gamut
\* selected by the flags, for every to, also when from is on a face of the
\* box and when from and to agree on an axis
C8_InGamutFromIsReturned ==
    Returned("intersect") /\ InGamut(call.from, call.use_ceiling) =>
        ColorEq(ret, call.from)

\* C9: with use_floor = false, a from whose three channels are all negative
\* is returned as it is, its negative channels preserved
C9_NegativeFromIsReturned ==
    /\ Returned("intersect") /\ ~call.use_floor
    /\ \A i \in 1..3 : FLt(call.from[i], Zero)
    => ColorEq(ret, call.from)

\* on axis i the direction has zero length and from is inside the box
AlwaysInside(from, to, box_min, box_max, i) ==
    FEq(from[i], to[i]) /\ FLe(box_min[i], from[i]) /\ FLe(from[i], box_max[i])

\* the slab test with every such axis left out
BboxOtherAxes(from, to, dir_inv, box_min, box_max) ==
    LET t1 == SlabT(from, dir_inv, box_min)
        t2 == SlabT(from, dir_inv, box_max)
    IN  BboxNearFar(
            Array3([i \in 1..3 |->
                IF AlwaysInside(from, to, box_min, box_max, i)
                THEN NEG_INFINITY ELSE FMin(t1[i], t2[i])]),
            Array3([i \in 1..3 |->
                IF AlwaysInside(from, to, box_min, box_max, i)
                THEN INFINITY ELSE FMax(t1[i], t2[i])]))

\* the result of intersect when only the other axes are tested
IntersectOtherAxes(from, to, use_ceiling, use_floor) ==
    LET dir == Dir(from, to)
        dir_inv == DirInv(dir)
    IN  HitT(from, to, dir,
             BboxOtherAxes(from, to, dir_inv, Splat(Zero), Ceiling(use_ceiling)),
             IF use_floor THEN None
             ELSE BboxOtherAxes(from, to, dir_inv, Splat(NEG_INFINITY), Splat(Zero)))

\* C10: on an axis where from and to are equal and from is inside the box,
\* 0 and 1 included, the slab test produces no NaN and the result is the one
\* of testing the other axes only
C10_ZeroDirectionAxisIsInside ==
    Returned("intersect") =>
        \A i \in 1..3 :
            AlwaysInside(call.from, call.to, Splat(Zero), Ceiling(call.use_ceiling), i)
            => /\ ~IsNaN(SlabT(call.from, DirInv(Dir(call.from, call.to)), Splat(Zero))[i])
               /\ ~IsNaN(SlabT(call.from, DirInv(Dir(call.from, call.to)),
                               Ceiling(call.use_ceiling))[i])
               /\ ColorEq(ret, IntersectOtherAxes(call.from, call.to,
                                                  call.use_ceiling, call.use_floor))

\* from on the face r = 0 and equal to to on that axis: to is returned
C8_FaceWithZeroDirection ==
    /\ Returned("intersect")
    /\ call.from = <<Zero, Q(1, 2), Q(1, 2)>> /\ call.to = <<Zero, One, One>>
    /\ call.use_ceiling /\ call.use_floor
    /\ InGamut(call.from, call.use_ceiling)
    /\ ColorEq(ret, call.to) /\ ~ColorEq(ret, call.from)

\* an all-negative from without a floor: black is returned
C9_NegativeFromIsClipped ==
    /\ Returned("intersect")
    /\ call.from = <<Q(-1, 1), Q(-1, 2), Q(-1, 1)>> /\ call.to = Splat(Q(1, 2))
    /\ call.use_ceiling /\ ~call.use_floor
    /\ ColorEq(ret, Splat(Zero))

\* from on the face r = 0 with zero direction there, and b above the
\* ceiling: the slab of r is NaN and to is returned, where the other axes
\* give the point on the face b = 1
C10_BoundaryAxisRejects ==
    /\ Returned("intersect")
    /\ call.from = <<Zero, Q(1, 2), Q(3, 2)>> /\ call.to = <<Zero, Q(1, 2), Q(1, 2)>>
    /\ call.use_ceiling /\ call.use_floor
    /\ IsNaN(SlabT(call.from, DirInv(Dir(call.from, call.to)), Splat(Zero))[1])
    /\ ColorEq(ret, call.to)
    /\ ColorEq(IntersectOtherAxes(call.from, call.to, TRUE, TRUE),
               <<Zero, Q(1, 2), One>>)

\* the parameter at which the segment from -> to crosses the face of channel i
\* that from violates, 0 for a channel that from does not violate
FaceT(from, to, use_ceiling, i) ==
    IF FLt(from[i], Zero) THEN FDiv(FSub(Zero, from[i]), FSub(to[i], from[i]))
    ELSE IF use_ceiling /\ FLt(One, from[i])
         THEN FDiv(FSub(One, from[i]), FSub(to[i], from[i]))
    ELSE Zero

\* from + t * (to - from) for the smallest t in [0, 1] at which the segment is
\* inside the box
FirstInside(from, to, use_ceiling) ==
    LET t == FMax(FMax(FaceT(from, to, use_ceiling, 1), FaceT(from, to, use_ceiling, 2)),
                  FaceT(from, to, use_ceiling, 3))
    IN  [i \in 1..3 |-> FAdd(from[i], FMul(t, FSub(to[i], from[i])))]

\* C11: with use_floor = true, from outside the box and to inside it,
\* intersect returns the first point of the segment that is inside the box:
\* the violated channel is on the box face and a channel with zero direction
\* is unchanged, and intersect([1.5, 0.5, 0.5], [0.5, 0.5, 0.5], true, true)
\* is [1.0, 0.5, 0.5]
C11_OutsideFromLandsOnFace ==
    /\ Returned("intersect") /\ call.use_floor
    /\ ~InGamut(call.from, call.use_ceiling) /\ InGamut(call.to, call.use_ceiling)
    => ColorEq(ret, FirstInside(call.from, call.to, call.use_ceiling))

\* from is outside the box in r and g and lies on the face b = 0 with no
\* direction in b: to is returned, where black is the first point inside
C11_FaceAxisReturnsTo ==
    /\ Returned("intersect")
    /\ call.from = <<Q(-1, 1), Q(-1, 1), Zero>> /\ call.to = <<Q(1, 2), Q(1, 2), Zero>>
    /\ call.use_ceiling /\ call.use_floor
    /\ ColorEq(FirstInside(call.from, call.to, TRUE), Splat(Zero))
    /\ ColorEq(ret, call.to)

----------------------------------------------------------------------------
(* The clips and soft_clamp.                                               *)

MinChannel(c) == FMin(FMin(c[1], c[2]), c[3])
MaxChannel(c) == FMax(FMax(c[1], c[2]), c[3])

ProtectedInUnit == FLe(Zero, call.protected) /\ FLe(call.protected, One)

\* C12: for every rgb, every gray_level and every protected in [0, 1], the
\* three channels of the result of open_domain_clip are >= 0, and with
\* protected = 1.0 and a negative minimum channel the minimum channel of the
\* result is exactly 0
C12_OpenClipIsNonNegative ==
    Returned("open_domain_clip") /\ ProtectedInUnit =>
        /\ \A i \in 1..3 : FLe(Zero, ret[i])
        /\ call.protected = One /\ FLt(MinChannel(call.rgb), Zero)
           => FEq(MinChannel(ret), Zero)

\* a gray at -1.0 clipped towards the gray level 0.2, hard: saturation is 6.0,
\* t its inverse, and 0.2 * (1.0 - t) + (-1.0) * t is below zero in f64
C12_RoundingLeavesNegative ==
    /\ Returned("open_domain_clip")
    /\ call.rgb = Splat(Q(-1, 1)) /\ call.gray_level = Tenth(2) /\ call.protected = One
    /\ \A i \in 1..3 : FLt(ret[i], Zero) /\ FLt(Q(-1, 1000), ret[i])


NonNegative(c) == \A i \in 1..3 : FLe(Zero, c[i])
InUnit(c) == \A i \in 1..3 : FLe(Zero, c[i]) /\ FLe(c[i], One)

\* C13: for every rgb with all channels >= 0, every finite gray_level and
\* every protected in [0, 1], the three channels of the result of
\* closed_domain_clip lie in [0, 1]
C13_ClosedClipInUnit ==
    Returned("closed_domain_clip") /\ NonNegative(call.rgb)
        /\ call.gray_level.k = "fin" /\ ProtectedInUnit
    => InUnit(ret)

\* an infinite gray with the gray level 0.5 and the protection point 0.5:
\* soft_clamp() remaps inf to inf, the main equation is inf / inf, and every
\* channel of the result is NaN
C13_InfiniteChannelGivesNaN ==
    /\ Returned("closed_domain_clip")
    /\ call.rgb = Splat(INFINITY) /\ call.gray_level = Q(1, 2) /\ call.protected = Q(1, 2)
    /\ \A i \in 1..3 : IsNaN(ret[i])


\* the call is of a clip, with a gray and its own gray level
GrayCall(fn) == Returned(fn) /\ call.rgb = Splat(call.gray_level) /\ ProtectedInUnit

\* closed_domain_clip leaves the gray level g exactly alone: g is zero, or g
\* is above EPSILON, at most 1.0 and not above the protection point
ClosedUntouched(g, protected) ==
    \/ FEq(g, Zero)
    \/ FLt(EPSILON, g) /\ FLe(g, One) /\ (FLe(g, protected) \/ FEq(protected, One))

C15_SoftClampProtects ==
    Returned("soft_clamp") =>
        /\ FEq(call.protected, One) => ret = (IF FLe(call.x, One) THEN call.x ELSE One)
        /\ FLt(call.protected, One) /\ FLe(call.x, call.protected) => ret = call.x

\* soft_clamp has returned for an x at the protection point 0.8, unchanged
C15_AtProtectionPoint ==
    /\ Returned("soft_clamp")
    /\ call.x = Tenth(8) /\ call.protected = Tenth(8)
    /\ ret = Tenth(8)


\* C16: open_domain_clip returns [0, 0, 0] for every gray_level <= 0, whatever
\* rgb and protected are, and closed_domain_clip returns [0, 0, 0] whenever
\* the maximum channel of rgb is <= 1e-15
C16_DegenerateIsBlack ==
    /\ Returned("open_domain_clip") /\ FLe(call.gray_level, Zero) => ret = Splat(Zero)
    /\ Returned("closed_domain_clip") /\ FLe(MaxChannel(call.rgb), EPSILON)
       => ret = Splat(Zero)

\* closed_domain_clip has returned black for a gray at 1e-15 with the gray
\* level 0.5
C16_EpsilonGrayIsBlack ==
    /\ Returned("closed_domain_clip")
    /\ call.rgb = Splat(EPSILON) /\ call.gray_level = Q(1, 2)
    /\ ret = Splat(Zero)


----------------------------------------------------------------------------
(* rgb_clip and oklab_clip.                                                *)

\* the iteration from ret to ret' moves target to the midpoint when the
\* midpoint is in gamut, and from otherwise
MovesToMidpoint(mid) ==
    /\ ret'.i = ret.i + 1
    /\ IF BisectInGamut(call, mid) THEN ret'.target = mid /\ ret'.from = ret.from
       ELSE ret'.from = mid /\ ret'.target = ret.target

\* C17: rgb_clip and oklab_clip run exactly 32 iterations and then
\* terminate: every step of the loop is one more iteration, up to 32, and the
\* step after the 32nd returns target; at each iteration the midpoint replaces
\* target if it is in gamut and from otherwise, so target is in gamut after
\* every iteration, and so is the value returned
C17_BisectionRuns32Iterations ==
    /\ [](pc = "bisect" => ret.i \in 0..32 /\ BisectInGamut(call, ret.target))
    /\ [][pc = "bisect" =>
              \/ /\ ret.i < 32 /\ pc' = "bisect"
                 /\ MovesToMidpoint(Midpoint(ret.from, ret.target))
              \/ ret.i = 32 /\ pc' = "done" /\ ret' = ret.target]_vars
    /\ [](pc = "done" => BisectInGamut(call, ret))

\* rgb_clip has returned for from = [2, 0.5, 0.5] and the gray 0.5: the result
\* is in gamut, within 2^-30 of the face of the first channel
C17_ReturnedNearFace ==
    /\ pc = "done" /\ call.fn = "rgb_clip"
    /\ call.from = <<Q(2, 1), Q(1, 2), Q(1, 2)>> /\ call.target = Splat(Q(1, 2))
    /\ FLe(ret[1], One) /\ FLt(FAdd(One, Dyadic(-1, <<1>>, -30)), ret[1])


----------------------------------------------------------------------------
(* resample.                                                               *)

\* C18: resample(N, R, table, R) returns table unchanged whenever table has
\* exactly N samples, N >= 2, and the new range equals the old range R
C18_SameGridIsIdentity ==
    Returned("resample") /\ call.new_samples = Len(call.old_table)
        /\ call.new_samples >= 2 /\ call.new_range_x = call.old_range_x
    => ret = call.old_table

\* the table 0.0, 1.0, ..., 13.0 over (0, 1), resampled to 14 samples over
\* (0, 1): 7.0 / 13.0 * 13.0 is above 7.0 in f32, and sample 7 is above 7.0
C18_RampOf14IsChanged ==
    /\ Returned("resample") /\ call.new_samples = 14 /\ call.old_table = Ramp(14)
    /\ call.new_range_x = <<Zero, One>> /\ call.old_range_x = <<Zero, One>>
    /\ FLt(Q(7, 1), ret[8]) /\ FLt(ret[8], Q(7001, 1000))
    /\ \A i \in (1..14) \ {8} : ret[i] = call.old_table[i]


\* the position of sample i (from 0) of the new table, in exact arithmetic
Position(i) ==
    FAdd(call.new_range_x[1],
         FDiv(FMul(Q(i, 1), FSub(call.new_range_x[2], call.new_range_x[1])),
              Q(call.new_samples - 1, 1)))

\* the position of sample i mapped into the old range: 0 at its start, 1 at
\* its end
Mapped(i) ==
    FDiv(FSub(Position(i), call.old_range_x[1]),
         FSub(call.old_range_x[2], call.old_range_x[1]))

\* the linear interpolation of table between the two samples that bracket the
\* index j, 0 <= j <= Len(table) - 1, in exact arithmetic
Interpolated(table, j) ==
    LET k == AsUsize(j)
        a == FSub(j, Q(k, 1))
    IN  IF k + 1 >= Len(table) THEN table[Len(table)]
        ELSE FAdd(FMul(table[k + 1], FSub(One, a)), FMul(table[k + 2], a))

InOldRange(i) == FLe(Zero, Mapped(i)) /\ FLe(Mapped(i), One)

InterpolatedAt(i) ==
    Interpolated(call.old_table, FMul(Mapped(i), Q(Len(call.old_table) - 1, 1)))

\* C19, as stated: sample i of the result equals the linear interpolation of
\* old_table between its two bracketing samples at the position of
\* new_range.0 + i * (new_range.1 - new_range.0) / (new_samples - 1)
\* mapped into old_range
C19_SampleEqualsInterpolation ==
    Returned("resample") =>
        \A i \in 0..call.new_samples - 1 :
            InOldRange(i) => FEq(ret[i + 1], InterpolatedAt(i))

FAbs(x) == IF x.s < 0 THEN FNeg(x) ELSE x

MaxAbs(table) ==
    CHOOSE m \in {FAbs(table[i]) : i \in 1..Len(table)} :
        \A i \in 1..Len(table) : FLe(FAbs(table[i]), m)

\* the rounding error allowed to one sample: 2^-20 * len * max|table| *
\* (1 + |offset| + |norm|)
Tolerance ==
    LET width == FSub(call.old_range_x[2], call.old_range_x[1])
        offset == FDiv(FSub(call.new_range_x[1], call.old_range_x[1]), width)
        norm == FDiv(FSub(call.new_range_x[2], call.new_range_x[1]), width)
    IN  FMul(FMul(Dyadic(1, <<1>>, -20), Q(Len(call.old_table), 1)),
             FMul(MaxAbs(call.old_table), FAdd(One, FAdd(FAbs(offset), FAbs(norm)))))

\* C19, amended: sample i of the result is within the rounding error of f32
\* of the linear interpolation of old_table at the position of sample i
\* mapped into old_range, and the results of tests::resample_01 and
\* resample_02 are exact
C19_SampleIsNearInterpolation ==
    Returned("resample") =>
        /\ \A i \in 0..call.new_samples - 1 :
               InOldRange(i) =>
                   FLe(FAbs(FSub(ret[i + 1], InterpolatedAt(i))), Tolerance)
        /\ call.new_samples = 5 /\ call.old_table = <<Zero, Q(1, 4), One>>
               /\ call.new_range_x = <<Zero, One>> /\ call.old_range_x = <<Zero, One>>
           => ret = <<Zero, Q(1, 8), Q(1, 4), Q(5, 8), One>>
        /\ call.new_samples = 2 /\ call.old_table = <<Zero, One>>
               /\ call.new_range_x = <<Q(1, 4), Q(3, 4)>> /\ call.old_range_x = <<Zero, One>>
           => ret = <<Q(1, 4), Q(3, 4)>>

\* tests::resample_01 has returned
C19_Resample01 ==
    /\ Returned("resample") /\ call.new_samples = 5
    /\ call.old_table = <<Zero, Q(1, 4), One>>
    /\ call.new_range_x = <<Zero, One>> /\ call.old_range_x = <<Zero, One>>
    /\ ret = <<Zero, Q(1, 8), Q(1, 4), Q(5, 8), One>>


\* the value lies between two samples of table: it is not extrapolated
WithinTable(table, y) ==
    \E i, j \in 1..Len(table) : FLe(table[i], y) /\ FLe(y, table[j])

\* C20: every new sample whose position maps at or below the start of
\* old_range gets the first value of old_table, every one that maps at or
\* beyond the end of old_range gets the last value, and no value is
\* extrapolated
C20_OutsideGetsFirstOrLast ==
    Returned("resample") =>
        \A i \in 0..call.new_samples - 1 :
            /\ FLe(Mapped(i), Zero) => ret[i + 1] = call.old_table[1]
            /\ FLe(One, Mapped(i)) => ret[i + 1] = call.old_table[Len(call.old_table)]
            /\ WithinTable(call.old_table, ret[i + 1])

\* 14 samples over (-7.0, 6.0 - 2^-21) of the table [0.0, 1.0] over (0, 1):
\* the position of sample 7 is below 0.0, the start of the old range, and
\* the sample is not the first value 0.0
C20_SampleBelowStartIsLerped ==
    /\ Returned("resample") /\ call.new_samples = 14 /\ call.old_table = <<Zero, One>>
    /\ call.new_range_x = <<Q(-7, 1), FSub(Q(6, 1), Dyadic(1, <<1>>, -21))>>
    /\ call.old_range_x = <<Zero, One>>
    /\ FLt(Position(7), Zero) /\ FLt(Zero, ret[8])


----------------------------------------------------------------------------
(* resample_inv.                                                           *)

\* the samples resample_inv has pushed so far
InvTable ==
    IF pc = "loop" THEN ret.new_table
    ELSE IF pc = "done" /\ ~IsPanic(ret) THEN ret ELSE <<>>

\* the y requested for sample i (from 0): new_range.0 + i * step, in f32
RequestedY(i) ==
    RAdd(call.new_range_x[1],
         RMul(Q(i, 1), RDiv(RSub(call.new_range_x[2], call.new_range_x[1], 24),
                            Q(call.new_samples - 1, 1), 24), 24), 24)

StrictlyIncreasing(table) ==
    \A i \in 1..Len(table) - 1 : FLt(table[i], table[i + 1])

\* the piecewise-linear function of old_table over old_range at x, in exact
\* arithmetic, with the first and last value outside the range
InterpolateOld(x) ==
    LET t == FDiv(FSub(x, call.old_range_x[1]),
                  FSub(call.old_range_x[2], call.old_range_x[1]))
        c == IF FLt(t, Zero) THEN Zero ELSE IF FLt(One, t) THEN One ELSE t
    IN  Interpolated(call.old_table, FMul(c, Q(Len(call.old_table) - 1, 1)))

InTableRange(y) ==
    FLe(call.old_table[1], y) /\ FLe(y, call.old_table[Len(call.old_table)])

Linear2x ==
    /\ call.old_table = <<Q(-2, 1), Q(4, 1)>>
    /\ call.old_range_x = <<Q(-1, 1), Q(2, 1)>>

\* C21, as stated: for a strictly increasing old_table of at least two
\* samples, interpolating old_table at sample i of the result gives back the
\* y requested for i, whenever that y lies within [first, last]; for the
\* table of f(x) = 2x the sample is exactly y / 2
C21_ResampleInvInverts ==
    Returned("resample_inv") /\ Len(call.old_table) >= 2
        /\ StrictlyIncreasing(call.old_table) =>
        \A i \in 0..call.new_samples - 1 :
            InTableRange(RequestedY(i)) =>
                /\ FEq(InterpolateOld(ret[i + 1]), RequestedY(i))
                /\ Linear2x => FEq(ret[i + 1], FDiv(RequestedY(i), Q(2, 1)))

\* the rounding error allowed to the y given back: 2^-19 * len *
\* (|old_range.0| + |old_range.1|) / |old_range.1 - old_range.0| *
\* (last - first)
InvTolerance ==
    FMul(FMul(Dyadic(1, <<1>>, -19), Q(Len(call.old_table), 1)),
         FMul(FDiv(FAdd(FAbs(call.old_range_x[1]), FAbs(call.old_range_x[2])),
                   FAbs(FSub(call.old_range_x[2], call.old_range_x[1]))),
              FSub(call.old_table[Len(call.old_table)], call.old_table[1])))

\* C21, amended: for a strictly increasing old_table and an ascending new
\* range, interpolating old_table at sample i of the result gives back the
\* requested y up to the rounding error of f32, and for the table of
\* f(x) = 2x the sample is within 0.00001 of y / 2
C21_ResampleInvNearlyInverts ==
    Returned("resample_inv") /\ Len(call.old_table) >= 2
        /\ StrictlyIncreasing(call.old_table)
        /\ FLe(call.new_range_x[1], call.new_range_x[2]) =>
        \A i \in 0..call.new_samples - 1 :
            InTableRange(RequestedY(i)) =>
                /\ FLe(FAbs(FSub(InterpolateOld(ret[i + 1]), RequestedY(i))),
                       InvTolerance)
                /\ Linear2x =>
                       FLe(FAbs(FSub(ret[i + 1], FDiv(RequestedY(i), Q(2, 1)))),
                           Q(1, 100000))

\* tests::resample_inv_04 has returned, and sample 31 is not y / 2
C21_ResampleInv04 ==
    /\ Returned("resample_inv") /\ Linear2x /\ call.new_samples = 113
    /\ call.new_range_x = <<Q(-2, 1), Q(4, 1)>>
    /\ InTableRange(RequestedY(31))
    /\ ~FEq(ret[32], FDiv(RequestedY(31), Q(2, 1)))

\* the precondition of the inversion routines
NonDecreasing(table) ==
    \A i \in 1..Len(table) - 1 : FLe(table[i], table[i + 1])

C27_ScanStaysInBounds ==
    /\ [](pc = "loop" /\ Len(call.old_table) >= 2 =>
            /\ ret.old_i_2 = ret.old_i_1 + 1
            /\ ret.old_i_2 <= Len(call.old_table) - 1
            /\ Len(ret.new_table) <= call.new_samples)
    /\ [][pc = "loop" /\ Len(call.old_table) >= 2 =>
            \/ /\ Len(ret.new_table) < call.new_samples /\ pc' = "loop"
               /\ Len(ret'.new_table) = Len(ret.new_table) + 1
               /\ ret'.old_i_1 >= ret.old_i_1 /\ ret'.old_i_2 >= ret.old_i_2
            \/ /\ Len(ret.new_table) = call.new_samples /\ pc' = "done"
               /\ ret' = ret.new_table]_vars

\* the scan has reached the last interval of a table of five samples
C27_ScanAtLastInterval ==
    /\ pc = "loop" /\ Len(call.old_table) = 5
    /\ ret.old_i_1 = 3 /\ ret.old_i_2 = 4
    /\ Len(ret.new_table) < call.new_samples


----------------------------------------------------------------------------
(* The methods of Lut1D.                                                   *)

\* the invariant of Lut1D
RangesMatch == Len(call.ranges) = 1 \/ Len(call.ranges) = Len(call.tables)

TablesHave(k) == \A i \in 1..Len(call.tables) : Len(call.tables[i]) >= k

\* the least of the first values and the greatest of the last values
LeastFirst ==
    CHOOSE m \in {call.tables[i][1] : i \in 1..Len(call.tables)} :
        \A i \in 1..Len(call.tables) : FLe(m, call.tables[i][1])

GreatestLast ==
    CHOOSE m \in {call.tables[i][Len(call.tables[i])] : i \in 1..Len(call.tables)} :
        \A i \in 1..Len(call.tables) : FLe(call.tables[i][Len(call.tables[i])], m)

\* the LUT lut has as many ranges and tables as the input, tables of
\* `samples` entries, and the ranges of an inverted LUT
InvertedShape(lut) ==
    /\ Len(lut[1]) = Len(call.ranges) /\ Len(lut[2]) = Len(call.tables)
    /\ \A i \in 1..Len(lut[2]) : Len(lut[2][i]) = call.samples
    /\ Len(call.ranges) = 1 /\ Len(call.tables) > 0 =>
           FEq(lut[1][1][1], LeastFirst) /\ FEq(lut[1][1][2], GreatestLast)
    /\ Len(call.ranges) # 1 =>
           \A i \in 1..Len(lut[1]) :
               /\ FEq(lut[1][i][1], call.tables[i][1])
               /\ FEq(lut[1][i][2], call.tables[i][Len(call.tables[i])])

\* C23, as stated: resample_inverted(samples) always returns a Lut1D with as
\* many ranges and tables as the input, every table of `samples` entries;
\* a single shared range becomes (least first value, greatest last value),
\* per-channel ranges become (first value, last value) of their table
C23_InvertedAlwaysKeepsShape ==
    Returned("resample_inverted") => ~IsPanic(ret) /\ InvertedShape(ret)

\* C23, amended: resample_inverted(samples) returns such a Lut1D for every
\* input that has one range or a range for each table and at least two
\* samples in every table, and whenever it returns the result has that shape
C23_InvertedKeepsShape ==
    Returned("resample_inverted") =>
        /\ RangesMatch /\ TablesHave(2) => ~IsPanic(ret)
        /\ ~IsPanic(ret) => InvertedShape(ret)

\* three tables with one shared range have been inverted to 5 samples: the
\* new range is (-0.5, 2.0), from the first value and from the last value of
\* the third table
C23_SharedRangeInverted ==
    /\ Returned("resample_inverted") /\ ~IsPanic(ret)
    /\ call.ranges = <<Unit>> /\ call.tables = Curves /\ call.samples = 5
    /\ ret[1] = <<<<Q(-1, 2), Q(2, 1)>>>>
    /\ Len(ret[2]) = 3 /\ Len(ret[2][1]) = 5

\* the table of a channel is monotonically increasing, strictly
ChannelIncreases ==
    StrictlyIncreasing(call.tables[call.channel + 1])

\* n lies in the input range of the channel, endpoints included
InChannelRange(n) ==
    /\ FLe(RangeOf(call.ranges, call.channel)[1], n)
    /\ FLe(n, RangeOf(call.ranges, call.channel)[2])

\* C24: for a monotonically increasing LUT and every n in the input range
\* of the channel, both endpoints included,
\* look_up_inv(look_up(n, c), c) == n, and the calls do not panic
C24_LookUpInvInverts ==
    Returned("look_up") /\ LookUpAsserts(call.ranges, call.tables, call.channel)
        /\ ChannelIncreases /\ InChannelRange(call.n) =>
        ret.k # "panic" /\ FEq(ret, call.n)

\* look_up(n) at the lower endpoint of the range has returned the first
\* value of the table, and look_up_inv() of it has panicked
C24_LowerEndpointPanics ==
    /\ Returned("look_up") /\ call.ranges = <<Unit>> /\ call.tables = <<Curves[1]>>
    /\ call.channel = 0 /\ call.n = Zero
    /\ look_up(call.ranges, call.tables, call.n, call.channel) = Zero
    /\ BinarySearch(call.tables[1], Zero) = {<<"Ok", 0>>}
    /\ ret.k = "panic"

\* C25, as stated: resample_inverted returns a LUT for every input Lut1D and
\* sample count, and never panics
C25_NoFailureOutcome ==
    Returned("resample_inverted") => ~IsPanic(ret)

\* C25, amended: resample_inverted returns a LUT when the input has one
\* range or a range for each table and at least two samples in every table,
\* whether or not the tables are monotonic; it panics when the range count
\* matches neither 1 nor the table count, when a table is empty, and when a
\* table with a range of its own has one sample.  resample_inv returns for
\* every table of at least two samples and resample for every table of at
\* least one
C25_FailsOnlyOnMalformedLuts ==
    Returned("resample_inverted") =>
        /\ RangesMatch /\ TablesHave(2) => ~IsPanic(ret)
        /\ ~RangesMatch \/ ~TablesHave(1) => IsPanic(ret)
        /\ Len(call.ranges) = Len(call.tables) /\ Len(call.ranges) # 1 /\ ~TablesHave(2)
               => IsPanic(ret)
        /\ \A i \in 1..Len(call.tables), range \in {Unit, <<Q(5, 4), Q(-1, 4)>>} :
               /\ Len(call.tables[i]) >= 2 =>
                      ~InvRun(call.samples, range, call.tables[i], Unit).panic
               /\ Len(call.tables[i]) >= 1 =>
                      Len(resample(call.samples, range, call.tables[i], Unit))
                          = call.samples

\* an unordered table has been inverted without a panic
C25_UnorderedTableInverted ==
    /\ Returned("resample_inverted") /\ ~IsPanic(ret)
    /\ call.tables = <<<<One, Zero, Q(1, 2), Q(3, 4), Q(1, 4)>>>>
    /\ Len(ret[2][1]) = call.samples

\* the union of the input ranges
LeastLower ==
    CHOOSE m \in {call.ranges[i][1] : i \in 1..Len(call.ranges)} :
        \A i \in 1..Len(call.ranges) : FLe(m, call.ranges[i][1])

GreatestUpper ==
    CHOOSE m \in {call.ranges[i][2] : i \in 1..Len(call.ranges)} :
        \A i \in 1..Len(call.ranges) : FLe(call.ranges[i][2], m)

\* C26: resample_to_single_range(samples) returns a LUT with exactly one
\* range, the union of the input ranges, with as many tables as the input,
\* every table of `samples` entries; an input with one range and tables of
\* `samples` entries is returned unchanged
C26_SingleRangeIsUnion ==
    Returned("resample_to_single_range") =>
        /\ Len(call.ranges) >= 1 /\ TablesHave(1) => ~IsPanic(ret)
        /\ ~IsPanic(ret) =>
            /\ Len(ret[1]) = 1 /\ Len(ret[2]) = Len(call.tables)
            /\ \A i \in 1..Len(ret[2]) : Len(ret[2][i]) = call.samples
            /\ Len(call.ranges) >= 1 =>
                   FEq(ret[1][1][1], LeastLower) /\ FEq(ret[1][1][2], GreatestUpper)
            /\ Len(call.ranges) = 1
                   /\ (\A i \in 1..Len(call.tables) : Len(call.tables[i]) = call.samples)
               => ret = Lut1D(call.ranges, call.tables)

\* three tables with ranges (0, 1), (-1, 2) and (0.25, 0.75) have been
\* resampled to 5 samples over the one range (-1, 2)
C26_ThreeRangesToOne ==
    /\ Returned("resample_to_single_range") /\ ~IsPanic(ret)
    /\ Len(call.ranges) = 3 /\ call.tables = Curves /\ call.samples = 5
    /\ ret[1] = <<<<Q(-1, 1), Q(2, 1)>>>>
    /\ Len(ret[2]) = 3 /\ Len(ret[2][3]) = 5


----------------------------------------------------------------------------
(* resample: the values of the result.                                     *)

NearlyWithinTable(table, y) ==
    \E i, j \in 1..Len(table) :
        /\ FLe(FSub(table[i], FMul(Dyadic(1, <<1>>, -22), MaxAbs(table))), y)
        /\ FLe(y, FAdd(table[j], FMul(Dyadic(1, <<1>>, -22), MaxAbs(table))))

----------------------------------------------------------------------------
(* rgb_gamut::intersect: the gamut of the result.                          *)

\* the hit of the box from the floor to the ceiling, as intersect() computes it
PositiveHit ==
    bbox_intersect(call.from, DirInv(Dir(call.from, call.to)), Splat(Zero),
                   Ceiling(call.use_ceiling))

\* the hit of the box of the negative colors, None under a floor
NegativeHit ==
    IF call.use_floor THEN None
    ELSE bbox_intersect(call.from, DirInv(Dir(call.from, call.to)),
                        Splat(NEG_INFINITY), Splat(Zero))

\* C29: whenever to lies inside the gamut box selected by the flags, the
\* color returned by intersect lies inside that box too, for every from;
\* and when neither candidate box is hit the result is to itself
C29_ResultIsInGamut ==
    Returned("intersect") /\ InGamut(call.to, call.use_ceiling) =>
        /\ InGamut(ret, call.use_ceiling)
        /\ PositiveHit = None /\ NegativeHit = None => ret = call.to

\* C29: intersect([2.3, 0.0, 0.5], [0.1, 0.3, 0.0], true, true) hits the
\* ceiling of the first axis, and the rounded hit point is one unit in the
\* last place above the ceiling
C29_HitAboveCeiling ==
    /\ Returned("intersect") /\ call.use_ceiling /\ call.use_floor
    /\ call.from = <<Tenth(23), Zero, Q(1, 2)>>
    /\ call.to = <<Tenth(1), Tenth(3), Zero>>
    /\ InGamut(call.to, TRUE)
    /\ PositiveHit /= None
    /\ ret[1] = FAdd(One, Dyadic(1, <<1>>, -52))

----------------------------------------------------------------------------
(* cube_resolve::read.                                                     *)

IsValue(part) == part.text \in {"uint", "dec", "inf", "nan"}

\* a line of three values
ThreeValues(line) ==
    ~line.io /\ Len(line.parts) = 3 /\ \A i \in 1..3 : IsValue(line.parts[i])

\* the three-value lines from line i on, in the order of the file
RECURSIVE DataRows(_, _)
DataRows(lines, i) ==
    IF i > Len(lines) THEN <<>>
    ELSE IF ThreeValues(lines[i]) THEN <<lines[i].parts>> \o DataRows(lines, i + 1)
    ELSE DataRows(lines, i + 1)

\* the size that the last line `keyword n` among lines 1..i declares
RECURSIVE Declared(_, _, _)
Declared(lines, keyword, i) ==
    IF i = 0 THEN 0
    ELSE IF /\ ~lines[i].io /\ Len(lines[i].parts) = 2
            /\ lines[i].parts[1].text = keyword /\ lines[i].parts[2].text = "uint"
         THEN lines[i].parts[2].n
    ELSE Declared(lines, keyword, i - 1)

Declared1D == Declared(call.lines, "LUT_1D_SIZE", Len(call.lines))
Declared3D == Declared(call.lines, "LUT_3D_SIZE", Len(call.lines))

\* -1, 0, 1: fewer three-value lines than LUT_1D_SIZE + LUT_3D_SIZE^3, as
\* many, more
RowsAgainstDeclared ==
    BCmp(Limbs(Len(DataRows(call.lines, 1))),
         BAdd(Limbs(Declared1D),
              BMul(BMul(Limbs(Declared3D), Limbs(Declared3D)), Limbs(Declared3D))))

\* neither blank, nor a comment, nor a line of the header, nor three values
OtherShape(line) ==
    ~line.io /\ HeaderKind(line.parts) = "end" /\ ~ThreeValues(line)

\* a range or a data line with inf or NaN among its values
NonFiniteValue(line) ==
    /\ ~line.io
    /\ \/ ThreeValues(line)
       \/ HeaderKind(line.parts) \in {"LUT_1D_INPUT_RANGE", "LUT_3D_INPUT_RANGE"}
    /\ \E i \in 1..Len(line.parts) : line.parts[i].text \in {"inf", "nan"}

\* channel c of the three-value lines low..high
RowValues(rows, c, low, high) ==
    <<>> \o [i \in 1..(high - low + 1) |-> ParseF32(rows[low + i - 1][c])[2]]

TablesOf(lut) == IF lut = None THEN <<<<>>, <<>>, <<>>>> ELSE lut[2][Len(lut[2])]

\* the file is read to its end
NoIoError == \A i \in 1..Len(call.lines) : ~call.lines[i].io

\* C30: read returns Ok only when the header declares LUT_1D_SIZE > 0 or
\* LUT_3D_SIZE > 0 and the number of three-value data lines is exactly
\* LUT_1D_SIZE + LUT_3D_SIZE^3; the first LUT_1D_SIZE of them fill the 1D
\* tables and the following ones the 3D tables; and too few lines, too many
\* lines, a line of another shape or a non-finite value gives FormatErr
C30_ReadTakesExactlyTheDeclaredLines ==
    Returned("read") =>
        /\ ret[1] = "Ok" =>
              /\ Declared1D > 0 \/ Declared3D > 0
              /\ RowsAgainstDeclared = 0
              /\ \A c \in 1..3 :
                    /\ TablesOf(ret[2])[c] =
                          RowValues(DataRows(call.lines, 1), c, 1, Declared1D)
                    /\ TablesOf(ret[3])[c] =
                          RowValues(DataRows(call.lines, 1), c, Declared1D + 1,
                                    Len(DataRows(call.lines, 1)))
        /\ /\ NoIoError
           /\ \/ RowsAgainstDeclared /= 0
              \/ \E i \in 1..Len(call.lines) :
                    OtherShape(call.lines[i]) \/ NonFiniteValue(call.lines[i])
           => ret = FormatErr

\* C30: the file of the single line LUT_3D_SIZE 4194304 declares 2^66 data
\* lines and has none; without overflow checks length_3d wraps to 0 and read
\* returns Ok with neither LUT
C30_WrappedSizeIsAccepted ==
    /\ Returned("read") /\ ~call.overflow_checks
    /\ call.lines = <<SizeLine("LUT_3D_SIZE", HugeSize)>>
    /\ RowsAgainstDeclared = -1
    /\ ret = <<"Ok", None, None>>

====
